---- MODULE Spec2Model ----
(***************************************************************************)
(* Model of the OASM instruction runtime: the execution context            *)
(* (crates/oasm-core/src/context/mod.rs), its symbol table mirror          *)
(* (symbol_table.rs), the assignment rules of the type system              *)
(* (types/mod.rs), the instruction executor (executor/mod.rs), the         *)
(* hierarchical rule engine and its resolver (rules/mod.rs,                *)
(* rules/resolver.rs) and the command block builder                        *)
(* (command_blocks/mod.rs).                                                *)
(*                                                                         *)
(* Strings are TLA+ strings.  An OasmType is a tuple: <<"U32">> for a      *)
(* primitive, <<"Object", t>> for Object{object_type: t}.  A Value is a    *)
(* tuple <<variant, payload>>.  Option<T> is a sequence of length 0 or 1.  *)
(* A HashMap is a function whose DOMAIN is its key set.  Wall-clock reads  *)
(* (Utc::now, Instant::now) are not state of the model, except that a      *)
(* symbol's last_modified is kept as the flag "touched": set by            *)
(* update_timestamp, cleared by insert.  A rule id is the sequence of its  *)
(* parts between underscores: "core_max_depth" is <<"core", "max",         *)
(* "depth">>, so that find('_') is the end of the first part.              *)
(***************************************************************************)
EXTENDS Integers, Sequences, FiniteSets, TLC

VARIABLES seq, scope_stack, objects, symbol_table, engine, builder, trace,
          last

vars ==
    <<seq, scope_stack, objects, symbol_table, engine, builder, trace, last>>

---------------------------------------------------------------------------
(* Bounds of the model *)

MaxDepth == 2
MaxSeq == 3
MaxBatch == 2
MaxRegistrations == 3
MaxRules == 3
MaxCalls == 3
MaxOperands == 3
MaxLines == 3

---------------------------------------------------------------------------
(* HashMap and Option *)

EmptyMap == [k \in {} |-> {}]

MapInsert(m, k, v) == [x \in (DOMAIN m) \cup {k} |-> IF x = k THEN v ELSE m[x]]

None == <<>>

Some(v) == <<v>>

---------------------------------------------------------------------------
(* Type system: infer_type, can_cast, check_assignment *)

T(kind) == <<kind>>

ObjectType(object_type) == <<"Object", object_type>>

infer_type(value) ==
    IF value[1] = "Object" THEN ObjectType(value[2]) ELSE T(value[1])

UnsignedRank(t) ==
    CASE t = T("U8") -> 1 [] t = T("U16") -> 2 [] t = T("U32") -> 3
      [] t = T("U64") -> 4 [] OTHER -> 0

SignedRank(t) ==
    CASE t = T("I8") -> 1 [] t = T("I16") -> 2 [] t = T("I32") -> 3
      [] t = T("I64") -> 4 [] OTHER -> 0

(* can_cast that also lets U64 and I64 convert to the float types *)
can_cast_AnyIntToFloat(from, to) ==
    \/ from = to
    \/ UnsignedRank(from) > 0 /\ UnsignedRank(to) > UnsignedRank(from)
    \/ SignedRank(from) > 0 /\ SignedRank(to) > SignedRank(from)
    \/ from = T("F32") /\ to = T("F64")
    \/ /\ UnsignedRank(from) > 0 \/ SignedRank(from) > 0
       /\ to \in {T("F32"), T("F64")}

can_cast(from, to) ==
    \/ from = to
    \/ UnsignedRank(from) > 0 /\ UnsignedRank(to) > UnsignedRank(from)
    \/ SignedRank(from) > 0 /\ SignedRank(to) > SignedRank(from)
    \/ from = T("F32") /\ to = T("F64")
    \/ /\ from \in {T("U8"), T("U16"), T("U32"), T("I8"), T("I16"), T("I32")}
       /\ to \in {T("F32"), T("F64")}

check_assignment(target, value) ==
    IF target = value THEN "Ok"
    ELSE IF can_cast(value, target) THEN "Ok"
    ELSE "TypeMismatch"

(* Result<OasmType, TypeError> of validate_operation *)
TRet(err, val) == [err |-> err, val |-> val]

(* the arms (T, T) => Ok(T) of the numeric match *)
NumericArms == {T("F64"), T("F32"), T("I64"), T("I32"), T("U64"), T("U32")}

validate_operation(op, operands) ==
    CASE op \in {"Add", "Subtract", "Multiply", "Divide", "Modulo"} ->
             IF Len(operands) # 2 THEN TRet("InvalidOperation", None)
             ELSE IF operands[1] = operands[2] /\ operands[1] \in NumericArms
             THEN TRet("Ok", Some(operands[1]))
             ELSE TRet("InvalidOperation", None)
      [] op \in {"Equal", "NotEqual", "LessThan", "LessOrEqual", "GreaterThan",
                 "GreaterOrEqual"} ->
             IF Len(operands) # 2 THEN TRet("InvalidOperation", None)
             ELSE TRet("Ok", Some(T("Bool")))
      [] op \in {"And", "Or"} ->
             IF Len(operands) # 2 THEN TRet("InvalidOperation", None)
             ELSE IF operands[1] = T("Bool") /\ operands[2] = T("Bool")
             THEN TRet("Ok", Some(T("Bool")))
             ELSE TRet("InvalidOperation", None)
      [] op = "Not" ->
             IF Len(operands) # 1 THEN TRet("InvalidOperation", None)
             ELSE IF operands[1] = T("Bool") THEN TRet("Ok", Some(T("Bool")))
             ELSE TRet("InvalidOperation", None)
      [] op = "Dot" ->
             IF Len(operands) # 2 THEN TRet("InvalidOperation", None)
             ELSE IF operands[1] = T("Vector3") /\ operands[2] = T("Vector3")
             THEN TRet("Ok", Some(T("F64")))
             ELSE TRet("InvalidOperation", None)
      [] op = "Cross" ->
             IF Len(operands) # 2 THEN TRet("InvalidOperation", None)
             ELSE IF operands[1] = T("Vector3") /\ operands[2] = T("Vector3")
             THEN TRet("Ok", Some(T("Vector3")))
             ELSE TRet("InvalidOperation", None)
      [] op = "MatrixMultiply" ->
             IF Len(operands) # 2 THEN TRet("InvalidOperation", None)
             ELSE IF operands[1] = T("Matrix4x4") /\ operands[2] = T("Vector4")
             THEN TRet("Ok", Some(T("Vector4")))
             ELSE IF operands[1] = T("Matrix4x4") /\ operands[2] = T("Matrix4x4")
             THEN TRet("Ok", Some(T("Matrix4x4")))
             ELSE TRet("InvalidOperation", None)
      [] op \in {"PropertyAccess", "MethodCall"} ->
             TRet("Ok", Some(T("Unknown")))

---------------------------------------------------------------------------
(* Execution context *)

Ctx ==
    [seq |-> seq, scope_stack |-> scope_stack, objects |-> objects,
     symbol_table |-> symbol_table]

Scope_new(name) == [name |-> name, variables |-> EmptyMap]

ExecutionContext_new ==
    [seq |-> 0, scope_stack |-> <<Scope_new("global")>>, objects |-> EmptyMap,
     symbol_table |-> EmptyMap]

(* SymbolTable::insert: replaces any entry of the same name *)
SymbolTable_insert(st, name, symbol_type, data_type) ==
    MapInsert(st, name,
        [symbol_type |-> symbol_type, data_type |-> data_type, touched |-> FALSE])

(* SymbolTable::update_timestamp: only an existing entry is touched *)
SymbolTable_update_timestamp(st, name) ==
    IF name \in DOMAIN st THEN [st EXCEPT ![name].touched = TRUE] ELSE st

Ret(err, val, c) == [err |-> err, val |-> val, ctx |-> c]

next_seq(c) == [c EXCEPT !.seq = @ + 1]

push_scope(c, name) ==
    [c EXCEPT !.scope_stack = Append(@, Scope_new(name))]

(* pop_scope with the guard len() < 1 in place of len() <= 1 *)
pop_scope_AllowEmpty(c) ==
    IF Len(c.scope_stack) < 1
    THEN Ret("ScopeStackEmpty", None, c)
    ELSE Ret("Ok", Some(c.scope_stack[Len(c.scope_stack)]),
             [c EXCEPT !.scope_stack = SubSeq(@, 1, Len(@) - 1)])

pop_scope(c) ==
    IF Len(c.scope_stack) <= 1
    THEN Ret("ScopeStackEmpty", None, c)
    ELSE Ret("Ok", Some(c.scope_stack[Len(c.scope_stack)]),
             [c EXCEPT !.scope_stack = SubSeq(@, 1, Len(@) - 1)])

(* declare_variable that looks for the name in every scope of the stack *)
declare_variable_AnyScope(c, name, var_type, mutable) ==
    LET top == Len(c.scope_stack)
    IN  IF \E i \in 1..top : name \in DOMAIN c.scope_stack[i].variables
        THEN Ret("VariableAlreadyDefined", None, c)
        ELSE Ret("Ok", None,
                 [c EXCEPT
                    !.scope_stack[top].variables =
                        MapInsert(@, name,
                            [name |-> name, var_type |-> var_type,
                             value |-> None, mutable |-> mutable]),
                    !.symbol_table =
                        SymbolTable_insert(@, name, "Variable", var_type)])

declare_variable(c, name, var_type, mutable) ==
    LET top == Len(c.scope_stack)
        scope == c.scope_stack[top]
    IN  IF name \in DOMAIN scope.variables
        THEN Ret("VariableAlreadyDefined", None, c)
        ELSE Ret("Ok", None,
                 [c EXCEPT
                    !.scope_stack[top].variables =
                        MapInsert(@, name,
                            [name |-> name, var_type |-> var_type,
                             value |-> None, mutable |-> mutable]),
                    !.symbol_table =
                        SymbolTable_insert(@, name, "Variable", var_type)])

(* the search without rev(): the outermost scope holding name *)
FindScope_Outermost(stack, name, i) ==
    LET holders == {j \in 1..i : name \in DOMAIN stack[j].variables}
    IN  IF holders = {} THEN 0
        ELSE CHOOSE j \in holders : \A k \in holders : j <= k

(* index of the innermost scope holding name, 0 if none: iter().rev() *)
RECURSIVE FindScope(_, _, _)
FindScope(stack, name, i) ==
    IF i = 0 THEN 0
    ELSE IF name \in DOMAIN stack[i].variables THEN i
    ELSE FindScope(stack, name, i - 1)

(* assign_variable that refuses a variable declared with mutable = false *)
assign_variable_CheckMutable(c, name, value) ==
    LET i == FindScope(c.scope_stack, name, Len(c.scope_stack))
    IN  IF i = 0
        THEN Ret("VariableNotFound", None, c)
        ELSE IF ~c.scope_stack[i].variables[name].mutable
        THEN Ret("InvalidOperation", None, c)
        ELSE Ret("Ok", None,
                 [c EXCEPT
                    !.scope_stack[i].variables[name].value = Some(value),
                    !.symbol_table = SymbolTable_update_timestamp(@, name)])

assign_variable(c, name, value) ==
    LET i == FindScope(c.scope_stack, name, Len(c.scope_stack))
    IN  IF i = 0
        THEN Ret("VariableNotFound", None, c)
        ELSE Ret("Ok", None,
                 [c EXCEPT
                    !.scope_stack[i].variables[name].value = Some(value),
                    !.symbol_table = SymbolTable_update_timestamp(@, name)])

get_variable(c, name) ==
    LET i == FindScope(c.scope_stack, name, Len(c.scope_stack))
    IN  IF i = 0
        THEN Ret("VariableNotFound", None, c)
        ELSE Ret("Ok", Some(c.scope_stack[i].variables[name]), c)

Digit(d) ==
    CASE d = 0 -> "0" [] d = 1 -> "1" [] d = 2 -> "2" [] d = 3 -> "3"
      [] d = 4 -> "4" [] d = 5 -> "5" [] d = 6 -> "6" [] d = 7 -> "7"
      [] d = 8 -> "8" [] d = 9 -> "9"

RECURSIVE Decimal(_)
Decimal(n) == IF n < 10 THEN Digit(n) ELSE Decimal(n \div 10) \o Digit(n % 10)

RECURSIVE PadLeft(_, _)
PadLeft(s, width) == IF Len(s) >= width THEN s ELSE PadLeft("0" \o s, width)

(* format!("{}_{:04}", object_type, seq) *)
FormatObjectId(object_type, n) == object_type \o "_" \o PadLeft(Decimal(n), 4)

create_object(c, object_type, id) ==
    LET object_id == IF id = None THEN FormatObjectId(object_type, c.seq)
                     ELSE id[1]
    IN  Ret("Ok", Some(object_id),
            [c EXCEPT
               !.objects =
                   MapInsert(@, object_id,
                       [id |-> object_id, object_type |-> object_type,
                        properties |-> EmptyMap]),
               !.symbol_table =
                   SymbolTable_insert(@, object_id, "Object",
                                      ObjectType(object_type))])

get_object(c, id) ==
    IF id \in DOMAIN c.objects
    THEN Ret("Ok", Some(c.objects[id]), c)
    ELSE Ret("ObjectNotFound", None, c)

---------------------------------------------------------------------------
(* Instruction executor *)

Identifier(name) == <<"Identifier", name>>

Literal(value) == <<"Literal", value>>

Property(object, property) == <<"Property", object, property>>

Assignment(target, value) == <<"Assignment", target, value>>

Instruction(mnemonic, operands) == [mnemonic |-> mnemonic, operands |-> operands]

Success == <<"Success">>

PartialSuccess(completed, total) == <<"PartialSuccess", completed, total>>

ExecutionResult(outcome, output, modified_objects) ==
    [outcome |-> outcome, output |-> output, modified_objects |-> modified_objects]

(* From<ContextError> for ExecutorError: ContextError(format!("{:?}", e)) *)
FromContextError(e) == "ContextError(" \o e \o ")"

(* str::to_uppercase on the mnemonics of the model *)
to_uppercase(s) ==
    CASE s = "create" -> "CREATE"
      [] s = "set" -> "SET"
      [] s = "foo" -> "FOO"
      [] OTHER -> s

(* CREATE without the call of ctx.next_seq() *)
CreateHandler_execute_NoNextSeq(operands, c) ==
    IF Len(operands) = 0
    THEN Ret("InvalidInstruction", None, c)
    ELSE IF operands[1][1] # "Identifier"
    THEN Ret("InvalidInstruction", None, c)
    ELSE LET r == create_object(c, operands[1][2], None)
         IN  Ret("Ok",
                 Some(ExecutionResult(Success, Some(<<"String", r.val[1]>>),
                                      <<r.val[1]>>)),
                 r.ctx)

(* CREATE that rejects every operand list but a single Identifier *)
CreateHandler_execute_ExactlyOne(operands, c) ==
    IF Len(operands) # 1
    THEN Ret("InvalidInstruction", None, c)
    ELSE IF operands[1][1] # "Identifier"
    THEN Ret("InvalidInstruction", None, c)
    ELSE LET r == create_object(c, operands[1][2], None)
         IN  Ret("Ok",
                 Some(ExecutionResult(Success, Some(<<"String", r.val[1]>>),
                                      <<r.val[1]>>)),
                 next_seq(r.ctx))

CreateHandler_execute(operands, c) ==
    IF Len(operands) = 0
    THEN Ret("InvalidInstruction", None, c)
    ELSE IF operands[1][1] # "Identifier"
    THEN Ret("InvalidInstruction", None, c)
    ELSE LET r == create_object(c, operands[1][2], None)
         IN  IF r.err # "Ok"
             THEN Ret(FromContextError(r.err), None, r.ctx)
             ELSE Ret("Ok",
                      Some(ExecutionResult(Success,
                                           Some(<<"String", r.val[1]>>),
                                           <<r.val[1]>>)),
                      next_seq(r.ctx))

(* SET that assigns first and checks the type afterwards *)
SetHandler_execute_AssignFirst(operands, c) ==
    IF Len(operands) = 0
    THEN Ret("InvalidInstruction", None, c)
    ELSE IF operands[1][1] # "Assignment"
    THEN Ret("InvalidInstruction", None, c)
    ELSE LET target == operands[1][2]
             value == operands[1][3]
         IN  IF value[1] # "Literal"
             THEN Ret("RuntimeError", None, c)
             ELSE LET val == value[2]
                      g == get_variable(c, target)
                      a == assign_variable(c, target, val)
                  IN  IF a.err # "Ok"
                      THEN Ret(FromContextError(a.err), None, a.ctx)
                      ELSE IF check_assignment(g.val[1].var_type,
                                               infer_type(val)) # "Ok"
                      THEN Ret("TypeError", None, a.ctx)
                      ELSE Ret("Ok", Some(ExecutionResult(Success, None, <<>>)),
                               next_seq(a.ctx))

SetHandler_execute(operands, c) ==
    IF Len(operands) = 0
    THEN Ret("InvalidInstruction", None, c)
    ELSE IF operands[1][1] # "Assignment"
    THEN Ret("InvalidInstruction", None, c)
    ELSE LET target == operands[1][2]
             value == operands[1][3]
         IN  IF value[1] # "Literal"
             THEN Ret("RuntimeError", None, c)
             ELSE LET val == value[2]
                      g == get_variable(c, target)
                      a == assign_variable(c, target, val)
                  IN  IF /\ g.err = "Ok"
                         /\ check_assignment(g.val[1].var_type, infer_type(val)) # "Ok"
                      THEN Ret("TypeError", None, c)
                      ELSE IF a.err # "Ok"
                      THEN Ret(FromContextError(a.err), None, a.ctx)
                      ELSE Ret("Ok", Some(ExecutionResult(Success, None, <<>>)),
                               next_seq(a.ctx))

ExtrudeHandler_execute(operands, c) ==
    IF Len(operands) < 2
    THEN Ret("InvalidInstruction", None, c)
    ELSE Ret("Ok", Some(ExecutionResult(Success, None, <<>>)), c)

(* Fillet, Move, Rotate, Scale, Boolean, Validate and Export handlers *)
NoOpHandler_execute(operands, c) ==
    Ret("Ok", Some(ExecutionResult(Success, None, <<>>)), c)

(* InstructionRegistry::default: the registered (uppercased) mnemonics *)
RegisteredMnemonics ==
    {"CREATE", "SET", "EXTRUDE", "FILLET", "MOVE", "ROTATE", "SCALE", "BOOLEAN",
     "VALIDATE", "EXPORT"}

(* InstructionRegistry::get *)
InstructionRegistry_get(mnemonic) ==
    IF to_uppercase(mnemonic) \in RegisteredMnemonics
    THEN Some(to_uppercase(mnemonic))
    ELSE None

(* execute that rejects a mnemonic without a handler *)
NativeExecutor_execute_Strict(instruction, c) ==
    LET handler == InstructionRegistry_get(instruction.mnemonic)
    IN  IF handler # None
        THEN CASE handler[1] = "CREATE" ->
                      CreateHandler_execute(instruction.operands, c)
               [] handler[1] = "SET" ->
                      SetHandler_execute(instruction.operands, c)
               [] handler[1] = "EXTRUDE" ->
                      ExtrudeHandler_execute(instruction.operands, c)
               [] OTHER -> NoOpHandler_execute(instruction.operands, c)
        ELSE Ret("InvalidInstruction", None, c)

NativeExecutor_execute(instruction, c) ==
    LET handler == InstructionRegistry_get(instruction.mnemonic)
    IN  IF handler # None
        THEN CASE handler[1] = "CREATE" ->
                      CreateHandler_execute(instruction.operands, c)
               [] handler[1] = "SET" ->
                      SetHandler_execute(instruction.operands, c)
               [] handler[1] = "EXTRUDE" ->
                      ExtrudeHandler_execute(instruction.operands, c)
               [] OTHER -> NoOpHandler_execute(instruction.operands, c)
        ELSE Ret("Ok", Some(ExecutionResult(Success, None, <<>>)), c)

(* the for loop of execute_batch from instruction i on: the state left by *)
(* the loop is [results, completed, ctx]                                  *)
RECURSIVE BatchLoop(_, _, _, _, _)
BatchLoop(instructions, i, results, completed, c) ==
    IF i > Len(instructions)
    THEN [results |-> results, completed |-> completed, ctx |-> c]
    ELSE LET r == NativeExecutor_execute(instructions[i], c)
         IN  IF r.err = "Ok"
             THEN BatchLoop(instructions, i + 1, Append(results, r.val[1]),
                            IF r.val[1].outcome = Success
                            THEN completed + 1 ELSE completed,
                            r.ctx)
             ELSE [results |-> results, completed |-> completed, ctx |-> r.ctx]

(* the loop with continue in place of break *)
RECURSIVE BatchLoop_Continue(_, _, _, _, _)
BatchLoop_Continue(instructions, i, results, completed, c) ==
    IF i > Len(instructions)
    THEN [results |-> results, completed |-> completed, ctx |-> c]
    ELSE LET r == NativeExecutor_execute(instructions[i], c)
         IN  IF r.err = "Ok"
             THEN BatchLoop_Continue(instructions, i + 1,
                                     Append(results, r.val[1]),
                                     completed + 1, r.ctx)
             ELSE BatchLoop_Continue(instructions, i + 1, results, completed,
                                     r.ctx)

execute_batch_Continue(instructions, c) ==
    LET l == BatchLoop_Continue(instructions, 1, <<>>, 0, c)
        outcome == IF l.completed = Len(instructions)
                   THEN Success
                   ELSE PartialSuccess(l.completed, Len(instructions))
    IN  Ret("Ok",
            Some([outcome |-> outcome, individual_results |-> l.results]),
            l.ctx)

(* execute_batch that gives back the context it was given when an       *)
(* instruction fails                                                      *)
execute_batch_Rollback(instructions, c) ==
    LET l == BatchLoop(instructions, 1, <<>>, 0, c)
        outcome == IF l.completed = Len(instructions)
                   THEN Success
                   ELSE PartialSuccess(l.completed, Len(instructions))
    IN  Ret("Ok",
            Some([outcome |-> outcome, individual_results |-> l.results]),
            IF l.completed = Len(instructions) THEN l.ctx ELSE c)

execute_batch(instructions, c) ==
    LET l == BatchLoop(instructions, 1, <<>>, 0, c)
        outcome == IF l.completed = Len(instructions)
                   THEN Success
                   ELSE PartialSuccess(l.completed, Len(instructions))
    IN  Ret("Ok",
            Some([outcome |-> outcome, individual_results |-> l.results]),
            l.ctx)

(* NativeCADEngine::create_primitive *)
create_primitive(c, primitive_type) == create_object(c, primitive_type, None)

---------------------------------------------------------------------------
(* Hierarchical rule engine (rules/mod.rs) *)

(* RuleLevel::priority, the discriminant the derived Ord compares *)
priority(level) ==
    CASE level = "Core" -> 0 [] level = "Domain" -> 1
      [] level = "Project" -> 2 [] level = "Session" -> 3

Condition(check_type, severity, message) ==
    [check_type |-> check_type, severity |-> severity, message |-> message]

Rule(id, program_type, category, conditions) ==
    [id |-> id, program_type |-> program_type, category |-> category,
     conditions |-> conditions]

HierarchicalRule(rule, level, overrides, source, enabled) ==
    [rule |-> rule, level |-> level, overrides |-> overrides,
     source |-> source, enabled |-> enabled]

HierarchicalRuleEngine_new ==
    [rules |-> EmptyMap, level_index |-> EmptyMap, program_index |-> EmptyMap]

ERet(err, val, e) == [err |-> err, val |-> val, engine |-> e]

(* entry(key).or_insert_with(Vec::new).push(item) *)
EntryPush(index, key, item) ==
    MapInsert(index, key,
        IF key \in DOMAIN index THEN Append(index[key], item) ELSE <<item>>)

register_rule(e, hrule) ==
    [rules |-> MapInsert(e.rules, hrule.rule.id, hrule),
     level_index |-> EntryPush(e.level_index, hrule.level, hrule.rule.id),
     program_index |->
         EntryPush(e.program_index, hrule.rule.program_type, hrule.rule.id)]

(* sort_by(|a, b| b.level.cmp(&a.level)): stable, highest level first *)
RECURSIVE sort_by_level_desc(_)
sort_by_level_desc(hrules) ==
    IF hrules = <<>> THEN <<>>
    ELSE LET n == Len(hrules)
             front == sort_by_level_desc(SubSeq(hrules, 1, n - 1))
             k == Cardinality({i \in 1..(n - 1) :
                      priority(front[i].level) >= priority(hrules[n].level)})
         IN  SubSeq(front, 1, k) \o <<hrules[n]>> \o SubSeq(front, k + 1, n - 1)

(* rule_ids.iter().filter_map(|id| rules.get(id)) *)
LookUp(rules, rule_ids) ==
    LET Known(id) == id \in DOMAIN rules
        found == SelectSeq(rule_ids, Known)
    IN  [i \in 1..Len(found) |-> rules[found[i]]]

get_resolved_rules(e, program_type) ==
    IF program_type \notin DOMAIN e.program_index THEN <<>>
    ELSE LET Enabled(hr) == hr.enabled
             hrules == sort_by_level_desc(
                           SelectSeq(LookUp(e.rules, e.program_index[program_type]),
                                     Enabled))
             overridden == {hrules[i].overrides[1] :
                               i \in {j \in 1..Len(hrules) :
                                         hrules[j].overrides # None}}
             Kept(hr) == hr.rule.id \notin overridden
         IN  SelectSeq(hrules, Kept)

get_rules_by_level(e, level) ==
    IF level \in DOMAIN e.level_index
    THEN LookUp(e.rules, e.level_index[level])
    ELSE <<>>

(* disable_rule that answers Ok for an id that is not registered *)
disable_rule_Silent(e, rule_id) ==
    IF rule_id \in DOMAIN e.rules
    THEN ERet("Ok", None, [e EXCEPT !.rules[rule_id].enabled = FALSE])
    ELSE ERet("Ok", None, e)

disable_rule(e, rule_id) ==
    IF rule_id \in DOMAIN e.rules
    THEN ERet("Ok", None, [e EXCEPT !.rules[rule_id].enabled = FALSE])
    ELSE ERet("RuleNotFound", None, e)

enable_rule(e, rule_id) ==
    IF rule_id \in DOMAIN e.rules
    THEN ERet("Ok", None, [e EXCEPT !.rules[rule_id].enabled = TRUE])
    ELSE ERet("RuleNotFound", None, e)

---------------------------------------------------------------------------
(* Rule resolver (rules/resolver.rs).  The iteration order of a HashMap is *)
(* not fixed: every operator that iterates one takes the order of its keys *)
(* as the parameter key_order.                                             *)

(* get_base_id that strips nothing *)
get_base_id_Keep(id) == id

get_base_id(id) ==
    IF Len(id) >= 2 /\ id[1] \in {"core", "domain", "project", "session"}
    THEN Tail(id)
    ELSE id

(* by_id: base id -> the rules of that base id, in input order *)
GroupByBaseId(rules) ==
    [base_id \in {get_base_id(rules[i].rule.id) : i \in 1..Len(rules)} |->
        LET InGroup(hr) == get_base_id(hr.rule.id) = base_id
        IN  SelectSeq(rules, InGroup)]

(* resolve_most_specific that takes the first rule of every group *)
resolve_most_specific_First(rules, key_order) ==
    LET by_id == GroupByBaseId(rules)
    IN  [i \in 1..Len(key_order) |-> by_id[key_order[i]][1]]

resolve_most_specific(rules, key_order) ==
    LET by_id == GroupByBaseId(rules)
        Pick(group) == IF Len(group) = 1 THEN group[1]
                       ELSE sort_by_level_desc(group)[1]
    IN  [i \in 1..Len(key_order) |-> Pick(by_id[key_order[i]])]

(* the number of Error conditions of a rule *)
ErrorCount(hr) ==
    Cardinality({i \in 1..Len(hr.rule.conditions) :
                    hr.rule.conditions[i].severity = "Error"})

(* max_by_key returns the last of the maximal elements *)
resolve_most_restrictive(rules, key_order) ==
    LET by_id == GroupByBaseId(rules)
        Pick(group) ==
            IF Len(group) = 1 THEN group[1]
            ELSE group[CHOOSE i \in 1..Len(group) :
                          \A j \in 1..Len(group) :
                              /\ ErrorCount(group[j]) <= ErrorCount(group[i])
                              /\ j > i => ErrorCount(group[j]) < ErrorCount(group[i])]
    IN  [i \in 1..Len(key_order) |-> Pick(by_id[key_order[i]])]

resolve_merge(rules) == rules

resolve_conflicts(conflict_strategy, rules, key_order) ==
    CASE conflict_strategy = "MostSpecificWins" ->
             resolve_most_specific(rules, key_order)
      [] conflict_strategy = "MostRestrictive" ->
             resolve_most_restrictive(rules, key_order)
      [] conflict_strategy = "Merge" -> resolve_merge(rules)

(* d holds the three collections the search shares by &mut, the cycle it   *)
(* returns (None or Some) and whether position(..).unwrap() panicked       *)
RECURSIVE detect_cycle_dfs(_, _, _)
detect_cycle_dfs(rule_id, rules, d) ==
    LET entered == [d EXCEPT !.visited = MapInsert(@, rule_id, TRUE),
                             !.rec_stack = MapInsert(@, rule_id, TRUE),
                             !.path = Append(@, rule_id)]
        Leave(x) == [x EXCEPT !.rec_stack = MapInsert(@, rule_id, FALSE),
                              !.path = SubSeq(@, 1, Len(@) - 1)]
    IN  IF rule_id \in DOMAIN rules /\ rules[rule_id].overrides # None
        THEN LET overrides == rules[rule_id].overrides[1]
                 positions == {i \in 1..Len(entered.path) :
                                  entered.path[i] = overrides}
             IN  IF overrides \in DOMAIN entered.rec_stack
                       /\ entered.rec_stack[overrides]
                 THEN IF positions = {}
                      THEN [entered EXCEPT !.panicked = TRUE]
                      ELSE LET cycle_start ==
                                   CHOOSE i \in positions :
                                       \A j \in positions : i <= j
                           IN  [entered EXCEPT
                                  !.cycle = Some(SubSeq(entered.path, cycle_start,
                                                        Len(entered.path)))]
                 ELSE IF ~(overrides \in DOMAIN entered.visited
                              /\ entered.visited[overrides])
                 THEN LET inner == detect_cycle_dfs(overrides, rules, entered)
                      IN  IF inner.panicked \/ inner.cycle # None THEN inner
                          ELSE Leave(inner)
                 ELSE Leave(entered)
        ELSE Leave(entered)

(* the loop over rules.keys() from its i-th key on *)
RECURSIVE CyclesLoop(_, _, _, _)
CyclesLoop(rules, key_order, i, st) ==
    IF i > Len(key_order) \/ st.panicked THEN st
    ELSE IF key_order[i] \in DOMAIN st.visited
    THEN CyclesLoop(rules, key_order, i + 1, st)
    ELSE LET d == detect_cycle_dfs(key_order[i], rules,
                      [visited |-> st.visited, rec_stack |-> st.rec_stack,
                       path |-> <<>>, cycle |-> None, panicked |-> FALSE])
         IN  CyclesLoop(rules, key_order, i + 1,
                 [visited |-> d.visited, rec_stack |-> d.rec_stack,
                  cycles |-> IF d.cycle # None
                             THEN Append(st.cycles, d.cycle[1])
                             ELSE st.cycles,
                  panicked |-> d.panicked])

(* err is "Panic" when the call aborts instead of returning *)
detect_circular_overrides(rules, key_order) ==
    LET st == CyclesLoop(rules, key_order, 1,
                  [visited |-> EmptyMap, rec_stack |-> EmptyMap,
                   cycles |-> <<>>, panicked |-> FALSE])
    IN  IF st.panicked THEN [err |-> "Panic", val |-> <<>>]
        ELSE [err |-> "Ok", val |-> st.cycles]

---------------------------------------------------------------------------
(* Command block builder (command_blocks/mod.rs) *)

BatchBuilder_new(block_type, run_id) ==
    [block_type |-> block_type, instructions |-> <<>>, targets |-> <<>>,
     rules |-> <<>>, execution_mode |-> "Sequential",
     checkpoint_before |-> FALSE, checkpoint_after |-> FALSE,
     test_after_execution |-> FALSE, repair_on_failure |-> FALSE,
     require_compilable_state |-> FALSE, run_id |-> run_id, seq |-> 0]

add_instruction(b, instruction) ==
    [b EXCEPT !.instructions = Append(@, instruction)]

add_target(b, target) == [b EXCEPT !.targets = Append(@, target)]

add_rule(b, rule_id) == [b EXCEPT !.rules = Append(@, rule_id)]

set_execution_mode(b, mode) == [b EXCEPT !.execution_mode = mode]

(* enable_checkpoints that sets checkpoint_before only *)
enable_checkpoints_BeforeOnly(b) == [b EXCEPT !.checkpoint_before = TRUE]

enable_checkpoints(b) ==
    [b EXCEPT !.checkpoint_before = TRUE, !.checkpoint_after = TRUE]

enable_testing(b) == [b EXCEPT !.test_after_execution = TRUE]

enable_repair_loop(b) == [b EXCEPT !.repair_on_failure = TRUE]

require_compilable_state(b) == [b EXCEPT !.require_compilable_state = TRUE]

(* format!("block_{}_{}", run_id, seq.0); created is a wall-clock read *)
build(b) ==
    IF b.instructions = <<>>
    THEN [err |-> "NoInstructions", val |-> None]
    ELSE [err |-> "Ok",
          val |-> Some(
              [block_id |-> "block_" \o b.run_id \o "_" \o Decimal(b.seq),
               block_type |-> b.block_type,
               instructions |-> b.instructions,
               targets |-> b.targets,
               rules |-> b.rules,
               execution_mode |-> b.execution_mode,
               checkpoint_before |-> b.checkpoint_before,
               checkpoint_after |-> b.checkpoint_after,
               test_after_execution |-> b.test_after_execution,
               repair_on_failure |-> b.repair_on_failure,
               require_compilable_state |-> b.require_compilable_state,
               run_id |-> b.run_id,
               seq |-> b.seq])]

---------------------------------------------------------------------------
(* Validators (validators/mod.rs, type_validator.rs, topology_validator.rs, *)
(* rules_validator.rs) and the built-in rules (rules/hierarchy.rs).  A      *)
(* message is the sequence of the pieces of its format string and of its    *)
(* arguments.  A validator walks the variables and the objects of the       *)
(* context in the order its HashMaps hand them out: var_order, obj_order.   *)

ValidationReport_new(validator) ==
    [passed |-> TRUE, validator |-> validator, issues |-> <<>>,
     metadata |-> EmptyMap]

ValidationIssue(severity, code, message, location, suggestion) ==
    [severity |-> severity, code |-> code, message |-> message,
     location |-> location, suggestion |-> suggestion]

(* IssueLocation with only the object id set *)
ObjectLocation(obj_id) ==
    [file |-> None, line |-> None, column |-> None, object_id |-> Some(obj_id)]

add_issue(report, issue) ==
    [report EXCEPT !.passed = IF issue.severity = "Error" THEN FALSE ELSE @,
                   !.issues = Append(@, issue)]

(* add_issue for each issue of the list, in order *)
RECURSIVE AddIssues(_, _)
AddIssues(report, issues) ==
    IF issues = <<>> THEN report
    ELSE AddIssues(add_issue(report, Head(issues)), Tail(issues))

(* HashMap::extend: the entries of other replace those of the same key *)
MapExtend(m, other) ==
    [k \in (DOMAIN m) \cup (DOMAIN other) |->
        IF k \in DOMAIN other THEN other[k] ELSE m[k]]

(* merge that puts the issues of other in front *)
merge_Prepend(report, other) ==
    [report EXCEPT !.passed = IF ~other.passed THEN FALSE ELSE @,
                   !.issues = other.issues \o @,
                   !.metadata = MapExtend(@, other.metadata)]

merge(report, other) ==
    [report EXCEPT !.passed = IF ~other.passed THEN FALSE ELSE @,
                   !.issues = @ \o other.issues,
                   !.metadata = MapExtend(@, other.metadata)]

ValidationContext(program_type, objs, variables, properties) ==
    [program_type |-> program_type, objects |-> objs,
     variables |-> variables, properties |-> properties]

RECURSIVE Flatten(_)
Flatten(lists) ==
    IF lists = <<>> THEN <<>> ELSE Head(lists) \o Flatten(Tail(lists))

(* the issue of one variable: none, or the one TYPE_MISMATCH *)
TypeIssues(name, variable) ==
    IF variable.value = None THEN <<>>
    ELSE LET inferred_type == infer_type(variable.value[1])
         IN  IF check_assignment(variable.var_type, inferred_type) = "Ok"
             THEN <<>>
             ELSE <<ValidationIssue("Error", "TYPE_MISMATCH",
                        <<"Variable '", name, "' has type mismatch: ",
                          "Type mismatch: expected ", variable.var_type,
                          ", found ", inferred_type>>,
                        None,
                        Some(<<"Ensure the value matches the declared type '",
                               variable.var_type, "'">>))>>

(* TypeValidator that compares the types for equality only *)
TypeValidator_validate_Equal(context, var_order) ==
    AddIssues(ValidationReport_new("type_validator"),
        Flatten([i \in 1..Len(var_order) |->
            LET variable == context.variables[var_order[i]]
            IN  IF variable.value = None
                   \/ infer_type(variable.value[1]) = variable.var_type
                THEN <<>>
                ELSE <<ValidationIssue("Error", "TYPE_MISMATCH",
                           <<"Variable '", var_order[i]>>, None, None)>>]))

(* validate_property_type accepts every property: the loop over the       *)
(* objects adds no issue                                                  *)
TypeValidator_validate(context, var_order) ==
    AddIssues(ValidationReport_new("type_validator"),
        Flatten([i \in 1..Len(var_order) |->
            TypeIssues(var_order[i], context.variables[var_order[i]])]))

(* the issues of one object, in the order of the checks *)
TopologyIssues(strict_mode, obj_id, object) ==
    LET Has(key) == key \in DOMAIN object.properties
        Issue(severity, code, what, msg, suggestion) ==
            ValidationIssue(severity, code,
                <<"Object '", obj_id, what, msg>>,
                Some(ObjectLocation(obj_id)), Some(suggestion))
    IN  (IF Has("non_manifold_edges")
         THEN <<Issue("Error", "NOT_MANIFOLD", "' is not manifold: ",
                      "Mesh has non-manifold edges",
                      "Ensure all edges are connected to exactly two faces")>>
         ELSE <<>>)
        \o (IF Has("open_edges")
            THEN <<Issue("Error", "NOT_WATERTIGHT", "' is not watertight: ",
                         "Mesh has open edges",
                         "Ensure all edges form closed loops")>>
            ELSE <<>>)
        \o (IF Has("self_intersecting")
            THEN <<Issue("Error", "SELF_INTERSECTION",
                         "' has self-intersections: ",
                         "Mesh has self-intersecting faces",
                         "Remove overlapping geometry")>>
            ELSE <<>>)
        \o (IF strict_mode /\ Has("flipped_normals")
            THEN <<Issue("Warning", "INCONSISTENT_NORMALS",
                         "' has inconsistent normals: ",
                         "Mesh has inconsistent face normals",
                         "Recalculate face normals")>>
            ELSE <<>>)
        \o (IF Has("degenerate_faces")
            THEN <<Issue("Warning", "DEGENERATE_GEOMETRY",
                         "' has degenerate geometry: ",
                         "Mesh has degenerate faces",
                         "Remove zero-area faces")>>
            ELSE <<>>)

(* TopologyValidator that skips the program type test *)
TopologyValidator_validate_AnyProgram(strict_mode, context, obj_order) ==
    AddIssues(ValidationReport_new("topology_validator"),
        Flatten([i \in 1..Len(obj_order) |->
            TopologyIssues(strict_mode, obj_order[i],
                           context.objects[obj_order[i]])]))

(* has_geometry is true of every object *)
TopologyValidator_validate(strict_mode, context, obj_order) ==
    IF context.program_type # "cad"
    THEN ValidationReport_new("topology_validator")
    ELSE AddIssues(ValidationReport_new("topology_validator"),
             Flatten([i \in 1..Len(obj_order) |->
                 TopologyIssues(strict_mode, obj_order[i],
                                context.objects[obj_order[i]])]))

BuiltinRule(id, program_type, category, conditions, level) ==
    HierarchicalRule(Rule(id, program_type, category, conditions), level,
                     None, <<"Builtin">>, TRUE)

get_core_rules ==
    <<BuiltinRule(<<"core", "type", "safety">>, "all", "Validation",
          <<Condition("type_mismatch", "Error", "Type mismatch detected"),
            Condition("invalid_cast", "Error", "Invalid type cast")>>, "Core"),
      BuiltinRule(<<"core", "memory", "safety">>, "all", "Validation",
          <<Condition("null_reference", "Error", "Null reference detected"),
            Condition("out_of_bounds", "Error", "Array index out of bounds")>>,
          "Core"),
      BuiltinRule(<<"core", "resource", "limits">>, "all", "Constraint",
          <<Condition("max_memory", "Warning", "Approaching memory limit"),
            Condition("max_execution_time", "Warning",
                      "Execution time limit exceeded")>>, "Core")>>

get_domain_rules ==
    <<BuiltinRule(<<"domain", "cad", "topology">>, "cad", "Validation",
          <<Condition("edges_connected", "Error", "All edges must be connected"),
            Condition("faces_closed", "Error", "All faces must be closed"),
            Condition("no_self_intersections", "Error",
                      "Geometry cannot self-intersect")>>, "Domain"),
      BuiltinRule(<<"domain", "cad", "manifold">>, "cad", "Validation",
          <<Condition("is_manifold", "Error",
                      "Mesh must be manifold (watertight)")>>, "Domain"),
      BuiltinRule(<<"domain", "cad", "parameter", "range">>, "cad", "Constraint",
          <<Condition("parameters_in_bounds", "Warning",
                      "Parameter out of recommended range")>>, "Domain"),
      BuiltinRule(<<"domain", "engine", "scene", "graph">>, "engine",
          "Validation",
          <<Condition("no_circular_refs", "Error",
                      "Scene graph cannot have circular references"),
            Condition("valid_transforms", "Error",
                      "All transforms must be valid (no NaN/Inf)")>>, "Domain"),
      BuiltinRule(<<"domain", "engine", "render", "limits">>, "engine",
          "Constraint",
          <<Condition("max_draw_calls", "Warning",
                      "Exceeding recommended draw call limit"),
            Condition("max_vertex_count", "Warning",
                      "Exceeding recommended vertex count")>>, "Domain"),
      BuiltinRule(<<"domain", "document", "structure">>, "document",
          "Validation",
          <<Condition("valid_hierarchy", "Error",
                      "Document hierarchy must be valid"),
            Condition("no_orphaned_elements", "Warning",
                      "Document contains orphaned elements")>>, "Domain")>>

load_builtin_rules == get_core_rules \o get_domain_rules

RECURSIVE RegisterAll(_, _)
RegisterAll(e, hrules) ==
    IF hrules = <<>> THEN e
    ELSE RegisterAll(register_rule(e, Head(hrules)), Tail(hrules))

(* the engine of RulesValidator::new *)
RulesValidator_new == RegisterAll(HierarchicalRuleEngine_new, load_builtin_rules)

(* the first element of order that is one of hits, as an Option *)
FirstOf(order, hits) ==
    LET found == {i \in 1..Len(order) : order[i] \in hits}
    IN  IF found = {} THEN None
        ELSE Some(order[CHOOSE i \in found : \A j \in found : i <= j])

(* key.ends_with("_param") and value.parse::<f64>() on the property keys  *)
(* and values of the model                                                *)
EndsWithParam(key) == key \in {"size_param"}

ParseF64(value) ==
    CASE value = "2000" -> Some(2000) [] value = "5" -> Some(5) [] OTHER -> None

check_condition(context, condition, var_order, obj_order, prop_order) ==
    CASE condition.check_type = "type_mismatch" ->
             LET hit == FirstOf(var_order,
                                {name \in DOMAIN context.variables :
                                    context.variables[name].value = None})
             IN  IF hit = None THEN None
                 ELSE Some(<<"Variable '", hit[1],
                             "' declared but not initialized">>)
      [] condition.check_type = "edges_connected" ->
             LET hit == FirstOf(obj_order,
                         {obj_id \in DOMAIN context.objects :
                             /\ context.objects[obj_id].object_type = "mesh"
                             /\ "disconnected_edges"
                                    \in DOMAIN context.objects[obj_id].properties})
             IN  IF context.program_type # "cad" \/ hit = None THEN None
                 ELSE Some(<<"Object '", hit[1], "' has disconnected edges">>)
      [] condition.check_type = "no_circular_refs" -> None
      [] condition.check_type = "parameters_in_bounds" ->
             LET hit == FirstOf(prop_order,
                         {key \in DOMAIN context.properties :
                             /\ EndsWithParam(key)
                             /\ ParseF64(context.properties[key]) # None
                             /\ \/ ParseF64(context.properties[key])[1] < 0
                                \/ ParseF64(context.properties[key])[1] > 1000})
             IN  IF hit = None THEN None
                 ELSE Some(<<"Parameter '", hit[1], "' out of bounds: ",
                             ParseF64(context.properties[hit[1]])[1]>>)
      [] OTHER -> None

(* the issues of the conditions of one resolved rule *)
RuleIssues(context, hrule, var_order, obj_order, prop_order) ==
    Flatten([i \in 1..Len(hrule.rule.conditions) |->
        LET condition == hrule.rule.conditions[i]
            violation == check_condition(context, condition, var_order,
                                         obj_order, prop_order)
        IN  IF violation = None THEN <<>>
            ELSE <<ValidationIssue(condition.severity, condition.check_type,
                                   violation[1], None, None)>>])

RulesValidator_validate(rules_engine, context, var_order, obj_order, prop_order) ==
    LET resolved_rules == get_resolved_rules(rules_engine, context.program_type)
    IN  AddIssues(ValidationReport_new("rules_validator"),
            Flatten([i \in 1..Len(resolved_rules) |->
                RuleIssues(context, resolved_rules[i], var_order, obj_order,
                           prop_order)]))

(* CombinedValidator::new makes the topology validator non-strict *)
validate_all(context, var_order, obj_order, prop_order) ==
    LET combined == ValidationReport_new("combined")
        with_type == merge(combined, TypeValidator_validate(context, var_order))
        with_topology ==
            IF context.program_type = "cad"
            THEN merge(with_type,
                       TopologyValidator_validate(FALSE, context, obj_order))
            ELSE with_type
    IN  merge(with_topology,
              RulesValidator_validate(RulesValidator_new, context, var_order,
                                      obj_order, prop_order))

---------------------------------------------------------------------------
(* Parser (parser/mod.rs).  The parser looks into its strings, so here a    *)
(* string is the sequence of its characters; the characters are ASCII.      *)

(* Result<_, ParseError> *)
PRet(err, val) == [err |-> err, val |-> val]

UnterminatedString(line) == <<"UnterminatedString", line>>

(* the Instruction the parser builds, with its line number *)
ParsedInstruction(mnemonic, operands, line_number) ==
    [mnemonic |-> mnemonic, operands |-> operands, line_number |-> line_number]

(* char::is_whitespace on the characters of the model *)
Whitespace == {" ", "\t", "\r"}

LowerCase ==
    <<"a", "b", "c", "d", "e", "f", "g", "h", "i", "j", "k", "l", "m", "n",
      "o", "p", "q", "r", "s", "t", "u", "v", "w", "x", "y", "z">>

UpperCase ==
    <<"A", "B", "C", "D", "E", "F", "G", "H", "I", "J", "K", "L", "M", "N",
      "O", "P", "Q", "R", "S", "T", "U", "V", "W", "X", "Y", "Z">>

(* str::to_uppercase on a sequence of characters *)
to_uppercase_chars(s) ==
    [k \in 1..Len(s) |->
        IF \E i \in 1..Len(LowerCase) : LowerCase[i] = s[k]
        THEN UpperCase[CHOOSE i \in 1..Len(LowerCase) : LowerCase[i] = s[k]]
        ELSE s[k]]

RECURSIVE trim_start(_)
trim_start(s) ==
    IF s # <<>> /\ Head(s) \in Whitespace THEN trim_start(Tail(s)) ELSE s

RECURSIVE trim_end(_)
trim_end(s) ==
    IF s # <<>> /\ s[Len(s)] \in Whitespace
    THEN trim_end(SubSeq(s, 1, Len(s) - 1))
    ELSE s

trim(s) == trim_end(trim_start(s))

(* the pieces of s between the separators, the empty ones included; piece *)
(* is the piece that is being read                                        *)
RECURSIVE SplitOn(_, _, _)
SplitOn(s, separators, piece) ==
    IF s = <<>> THEN <<piece>>
    ELSE IF Head(s) \in separators
         THEN <<piece>> \o SplitOn(Tail(s), separators, <<>>)
         ELSE SplitOn(Tail(s), separators, Append(piece, Head(s)))

(* str::split(char) *)
split(s, separator) == SplitOn(s, {separator}, <<>>)

split_whitespace(s) ==
    LET NonEmpty(piece) == piece # <<>>
    IN  SelectSeq(SplitOn(s, Whitespace, <<>>), NonEmpty)

(* str::lines: the pieces between the line feeds, without a last empty    *)
(* piece and without the carriage return at the end of a piece            *)
lines(source) ==
    LET pieces == split(source, "\n")
        kept == IF pieces[Len(pieces)] = <<>>
                THEN SubSeq(pieces, 1, Len(pieces) - 1)
                ELSE pieces
    IN  [i \in 1..Len(kept) |->
            IF kept[i] # <<>> /\ kept[i][Len(kept[i])] = "\r"
            THEN SubSeq(kept[i], 1, Len(kept[i]) - 1)
            ELSE kept[i]]

IsDigit(c) == \E d \in 0..9 : Digit(d) = c

DigitValue(c) == CHOOSE d \in 0..9 : Digit(d) = c

AllDigits(s) == \A i \in 1..Len(s) : IsDigit(s[i])

RECURSIVE DecimalValue(_)
DecimalValue(s) ==
    IF s = <<>> THEN 0
    ELSE DecimalValue(SubSeq(s, 1, Len(s) - 1)) * 10 + DigitValue(s[Len(s)])

RECURSIVE StripLeadingZeros(_)
StripLeadingZeros(s) ==
    IF s # <<>> /\ Head(s) = "0" THEN StripLeadingZeros(Tail(s)) ELSE s

(* digit sequences of the same length, compared as numbers *)
RECURSIVE DigitsLeq(_, _)
DigitsLeq(a, b) ==
    IF a = <<>> THEN TRUE
    ELSE IF DigitValue(Head(a)) # DigitValue(Head(b))
         THEN DigitValue(Head(a)) < DigitValue(Head(b))
         ELSE DigitsLeq(Tail(a), Tail(b))

(* the digits of u32::MAX *)
U32MaxDigits == <<"4", "2", "9", "4", "9", "6", "7", "2", "9", "5">>

(* str::parse::<u32>: an optional +, then digits of a value up to u32::MAX *)
parse_u32(token) ==
    LET digits == IF token # <<>> /\ Head(token) = "+" THEN Tail(token)
                  ELSE token
        significant == StripLeadingZeros(digits)
    IN  IF /\ digits # <<>>
           /\ AllDigits(digits)
           /\ \/ Len(significant) < Len(U32MaxDigits)
              \/ /\ Len(significant) = Len(U32MaxDigits)
                 /\ DigitsLeq(significant, U32MaxDigits)
        THEN Some(DecimalValue(significant))
        ELSE None

RECURSIVE StripTrailingZeros(_)
StripTrailingZeros(s) ==
    IF s # <<>> /\ s[Len(s)] = "0"
    THEN StripTrailingZeros(SubSeq(s, 1, Len(s) - 1))
    ELSE s

(* the f64 negative * digits * 10^exponent, without a leading or a        *)
(* trailing zero digit; the rounding to 53 bits is left out               *)
Float(negative, digits, exponent) ==
    LET significant == StripTrailingZeros(StripLeadingZeros(digits))
        dropped == Len(StripLeadingZeros(digits)) - Len(significant)
    IN  [negative |-> negative, digits |-> significant,
         exponent |-> IF significant = <<>> THEN 0 ELSE exponent + dropped]

(* str::parse::<f64>: an optional sign, then inf, infinity or nan in any  *)
(* case, or digits with at most one point and an optional exponent        *)
parse_f64(token) ==
    LET negative == token # <<>> /\ Head(token) = "-"
        unsigned == IF token # <<>> /\ Head(token) \in {"+", "-"}
                    THEN Tail(token) ELSE token
        parts == SplitOn(unsigned, {"e", "E"}, <<>>)
        mantissa == split(parts[1], ".")
        int_part == mantissa[1]
        frac_part == IF Len(mantissa) >= 2 THEN mantissa[2] ELSE <<>>
        exp_part == IF Len(parts) >= 2 THEN parts[2] ELSE <<"0">>
        exp_digits == IF exp_part # <<>> /\ Head(exp_part) \in {"+", "-"}
                      THEN Tail(exp_part) ELSE exp_part
        exp_value == IF exp_part # <<>> /\ Head(exp_part) = "-"
                     THEN 0 - DecimalValue(exp_digits)
                     ELSE DecimalValue(exp_digits)
    IN  IF to_uppercase_chars(unsigned)
               \in {<<"I", "N", "F">>,
                    <<"I", "N", "F", "I", "N", "I", "T", "Y">>}
        THEN Some([negative |-> negative, digits |-> <<"inf">>, exponent |-> 0])
        ELSE IF to_uppercase_chars(unsigned) = <<"N", "A", "N">>
        THEN Some([negative |-> negative, digits |-> <<"nan">>, exponent |-> 0])
        ELSE IF /\ Len(parts) <= 2
                /\ Len(mantissa) <= 2
                /\ AllDigits(int_part) /\ AllDigits(frac_part)
                /\ int_part \o frac_part # <<>>
                /\ exp_digits # <<>> /\ AllDigits(exp_digits)
        THEN Some(Float(negative, int_part \o frac_part,
                        exp_value - Len(frac_part)))
        ELSE None

parse_value(token, line_number) ==
    IF token # <<>> /\ Head(token) = "\""
    THEN IF token[Len(token)] # "\"" \/ Len(token) < 2
         THEN PRet(UnterminatedString(line_number), None)
         ELSE PRet("Ok", Literal(<<"String", SubSeq(token, 2, Len(token) - 1)>>))
    ELSE IF token = <<"t", "r", "u", "e">>
    THEN PRet("Ok", Literal(<<"Bool", 1>>))
    ELSE IF token = <<"f", "a", "l", "s", "e">>
    THEN PRet("Ok", Literal(<<"Bool", 0>>))
    ELSE IF parse_u32(token) # None
    THEN PRet("Ok", Literal(<<"U32", parse_u32(token)[1]>>))
    ELSE IF parse_f64(token) # None
    THEN PRet("Ok", Literal(<<"F64", parse_f64(token)[1]>>))
    ELSE PRet("Ok", Identifier(token))

(* the while loop of parse_operands; i counts the tokens from 1 *)
RECURSIVE OperandsLoop(_, _, _, _)
OperandsLoop(tokens, i, operands, line_number) ==
    IF i > Len(tokens) THEN PRet("Ok", operands)
    ELSE LET token == tokens[i]
         IN  IF token = <<",">>
             THEN OperandsLoop(tokens, i + 1, operands, line_number)
             ELSE IF i + 2 <= Len(tokens) /\ tokens[i + 1] = <<"=">>
             THEN LET value == parse_value(tokens[i + 2], line_number)
                  IN  IF value.err # "Ok" THEN value
                      ELSE OperandsLoop(tokens, i + 3,
                               Append(operands, Assignment(token, value.val)),
                               line_number)
             ELSE IF /\ \E k \in 1..Len(token) : token[k] = "."
                     /\ Len(split(token, ".")) = 2
             THEN OperandsLoop(tokens, i + 1,
                      Append(operands, Property(split(token, ".")[1],
                                                split(token, ".")[2])),
                      line_number)
             ELSE IF token # <<>> /\ Head(token) = "["
             THEN OperandsLoop(tokens, i + 1, operands, line_number)
             ELSE LET operand == parse_value(token, line_number)
                  IN  IF operand.err # "Ok" THEN operand
                      ELSE OperandsLoop(tokens, i + 1,
                               Append(operands, operand.val), line_number)

parse_operands(tokens, line_number) ==
    OperandsLoop(tokens, 1, <<>>, line_number)

(* the Instruction of the tokens of a line, or the error of its operands; *)
(* the result of parse_operands is bound to its value once                *)
ParseTokens(tokens, line_number) ==
    CHOOSE r \in
        {IF operands.err # "Ok" THEN PRet(operands.err, None)
         ELSE PRet("Ok", Some(ParsedInstruction(to_uppercase_chars(tokens[1]),
                                                operands.val, line_number))) :
            operands \in {parse_operands(SubSeq(tokens, 2, Len(tokens)),
                                         line_number)}} : TRUE

(* parse_line that takes only ; for the start of a comment *)
parse_line_SemicolonOnly(line, line_number) ==
    CHOOSE r \in
        {IF tokens = <<>> \/ tokens[1][1] = ";" THEN PRet("Ok", None)
         ELSE ParseTokens(tokens, line_number) :
            tokens \in {split_whitespace(trim(line))}} : TRUE

(* trimmed and tokens are bound to their values once *)
parse_line(line, line_number) ==
    CHOOSE r \in
        {IF trimmed = <<>> \/ Head(trimmed) = ";" \/ Head(trimmed) = "#"
         THEN PRet("Ok", None)
         ELSE IF tokens = <<>> THEN PRet("Ok", None)
         ELSE ParseTokens(tokens, line_number) :
            trimmed \in {trim(line)},
            tokens \in {split_whitespace(trim(line))}} : TRUE

(* the for loop of parse_file over the lines from line_num on; line_num   *)
(* counts from 0 as enumerate does                                        *)
RECURSIVE FileLoop(_, _, _)
FileLoop(source_lines, line_num, instructions) ==
    IF line_num >= Len(source_lines) THEN PRet("Ok", instructions)
    ELSE CHOOSE r \in
             {IF instr.err # "Ok" THEN PRet(instr.err, <<>>)
              ELSE FileLoop(source_lines, line_num + 1,
                            IF instr.val = None THEN instructions
                            ELSE Append(instructions, instr.val[1])) :
                 instr \in {parse_line(source_lines[line_num + 1],
                                       line_num + 1)}} : TRUE

(* the lines of the source are bound to their value once *)
parse_file(source) ==
    CHOOSE r \in {FileLoop(source_lines, 0, <<>>) :
                     source_lines \in {lines(source)}} : TRUE

---------------------------------------------------------------------------
(* Inputs of the calls *)

VarNames == {"x", "y"}

ScopeNames == {"block"}

DeclInputs ==
    {<<"x", T("U32"), TRUE>>, <<"x", T("Bool"), FALSE>>, <<"y", T("F64"), TRUE>>}

Values == {<<"U32", 7>>, <<"Bool", 1>>}

ObjectTypes == {"box", "gear"}

ExplicitIds == {"a", "box_0000"}

Instructions ==
    {Instruction("CREATE", <<Identifier("box")>>),
     Instruction("create", <<Identifier("gear")>>),
     Instruction("CREATE", <<>>),
     Instruction("CREATE", <<Literal(<<"U32", 7>>)>>),
     Instruction("CREATE", <<Identifier("box"), Literal(<<"U32", 7>>)>>),
     Instruction("SET", <<Assignment("x", Literal(<<"U32", 7>>))>>),
     Instruction("SET", <<Assignment("x", Literal(<<"Bool", 1>>))>>),
     Instruction("SET", <<Assignment("y", Literal(<<"U32", 7>>))>>),
     Instruction("SET", <<Assignment("x", Identifier("y"))>>),
     Instruction("SET", <<Identifier("x")>>),
     Instruction("SET", <<>>),
     Instruction("EXTRUDE", <<Identifier("box_0000")>>),
     Instruction("EXTRUDE", <<Identifier("box_0000"), Literal(<<"U32", 7>>)>>),
     Instruction("FILLET", <<>>),
     Instruction("FOO", <<Identifier("box")>>)}

(* the instructions batches are built from *)
BatchInstructions ==
    {Instruction("CREATE", <<Identifier("box")>>),
     Instruction("CREATE", <<>>),
     Instruction("SET", <<Assignment("x", Literal(<<"U32", 7>>))>>),
     Instruction("FOO", <<Identifier("box")>>)}

(* the batch [valid, valid, invalid, valid], an all-valid batch of four and *)
(* a batch whose SET fails or not with the declared type of x              *)
ExampleBatches ==
    LET create == Instruction("CREATE", <<Identifier("box")>>)
        bad == Instruction("CREATE", <<>>)
        set == Instruction("SET", <<Assignment("x", Literal(<<"U32", 7>>))>>)
        foo == Instruction("FOO", <<Identifier("box")>>)
    IN  {<<create, foo, bad, create>>, <<create, foo, foo, create>>,
         <<foo, create, set, create>>}

RECURSIVE SeqsUpTo(_, _)
SeqsUpTo(S, n) ==
    IF n = 0 THEN {<<>>}
    ELSE LET shorter == SeqsUpTo(S, n - 1)
         IN  shorter \cup {Append(q, e) : q \in shorter, e \in S}

(* the rule ids core_max_depth and session_max_depth of the engine's and   *)
(* the resolver's tests, and an id nothing is registered under             *)
CoreMaxDepth == <<"core", "max", "depth">>

SessionMaxDepth == <<"session", "max", "depth">>

UnknownRuleId == <<"ghost">>

core_rule ==
    HierarchicalRule(Rule(CoreMaxDepth, "cad", "Constraint", <<>>),
                     "Core", None, <<"Builtin">>, TRUE)

session_rule ==
    HierarchicalRule(Rule(SessionMaxDepth, "cad", "Constraint", <<>>),
                     "Session", Some(CoreMaxDepth), <<"UserDefined", "test">>,
                     TRUE)

(* the two rules of the tests, the core rule registered for another       *)
(* program type, the core rule overriding the session rule and the        *)
(* session rule overriding nothing                                        *)
RuleInputs ==
    {core_rule,
     session_rule,
     [core_rule EXCEPT !.rule.program_type = "text"],
     [core_rule EXCEPT !.overrides = Some(SessionMaxDepth)],
     [session_rule EXCEPT !.overrides = None]}

RuleIds == {CoreMaxDepth, SessionMaxDepth, UnknownRuleId}

ProgramTypes == {"cad", "text"}

RuleLevels == {"Core", "Domain", "Project", "Session"}

(* the orders in which a HashMap may hand out the keys S *)
Orders(S) ==
    {order \in [1..Cardinality(S) -> S] :
        \A k \in S : \E i \in 1..Cardinality(S) : order[i] = k}

ConflictStrategies == {"MostSpecificWins", "MostRestrictive", "Merge"}

(* rules the resolver is given: three of base id max_depth at different   *)
(* levels, one whose prefix is not its level, and two of other base ids   *)
ConflictRules ==
    {core_rule,
     session_rule,
     HierarchicalRule(Rule(<<"project", "max", "depth">>, "cad", "Constraint",
                           <<Condition("max_depth", "Error", "Nesting too deep")>>),
                      "Core", None, <<"Builtin">>, TRUE),
     HierarchicalRule(Rule(<<"core", "type", "safety">>, "all", "Validation",
                           <<Condition("type_mismatch", "Error", "Type mismatch")>>),
                      "Core", None, <<"Builtin">>, TRUE),
     HierarchicalRule(Rule(<<"simple", "rule">>, "cad", "Behavior", <<>>),
                      "Domain", None, <<"Builtin">>, TRUE)}

ConflictInputs ==
    {<<strategy, rules>> :
        strategy \in ConflictStrategies, rules \in SeqsUpTo(ConflictRules, MaxRules)}

CycleIds == {<<"rule1">>, <<"rule2">>, <<"rule3">>}

(* every map over some of CycleIds, each rule overriding nothing, one of  *)
(* CycleIds or an id that is not a key                                    *)
CycleMaps ==
    LET Overrides == {None} \cup {Some(id) : id \in CycleIds \cup {UnknownRuleId}}
        CycleRule(id, overrides) ==
            HierarchicalRule(Rule(id, "test", "Validation", <<>>),
                             "Core", overrides, <<"Builtin">>, TRUE)
    IN  UNION {{[id \in S |-> CycleRule(id, f[id])] : f \in [S -> Overrides]} :
                  S \in SUBSET CycleIds}

PrimitiveKinds ==
    {"U8", "U16", "U32", "U64", "I8", "I16", "I32", "I64", "F32", "F64",
     "Bool", "Char", "String"}

OtherKinds ==
    {"Vector2", "Vector3", "Vector4", "Matrix3x3", "Matrix4x4", "BoundingBox",
     "Mesh", "Void", "Unknown"}

CastTypes ==
    {T(kind) : kind \in PrimitiveKinds \cup OtherKinds}
        \cup {ObjectType("box"), ObjectType("gear")}

BlockTypes == {"RepairBlock", "TestBlock"}

RunIds == {"run1", "run2"}

BuilderInstructions ==
    {Instruction("CREATE", <<Identifier("gear")>>), Instruction("VALIDATE", <<>>)}

Operations ==
    {"Add", "Subtract", "Multiply", "Divide", "Modulo", "Equal", "NotEqual",
     "LessThan", "LessOrEqual", "GreaterThan", "GreaterOrEqual", "And", "Or",
     "Not", "Dot", "Cross", "MatrixMultiply", "PropertyAccess", "MethodCall"}

(* the ten numeric types and five others *)
OperandTypes ==
    {T(kind) : kind \in {"U8", "U16", "U32", "U64", "I8", "I16", "I32", "I64",
                         "F32", "F64", "Bool", "String", "Vector3", "Vector4",
                         "Matrix4x4"}}

(* no operand, one, two of any types, and some lists of three *)
OperandLists ==
    {<<>>} \cup {<<a>> : a \in OperandTypes}
        \cup {<<a, b>> : a \in OperandTypes, b \in OperandTypes}
        \cup {<<a, a, a>> : a \in OperandTypes}

Variable(name, var_type, value, mutable) ==
    [name |-> name, var_type |-> var_type, value |-> value, mutable |-> mutable]

Object(id, object_type, properties) ==
    [id |-> id, object_type |-> object_type, properties |-> properties]

(* the maps over some of the keys of options that give key k one of      *)
(* options[k]                                                             *)
MapsOver(options) ==
    UNION {{m \in [S -> UNION {options[k] : k \in S}] :
               \A k \in S : m[k] \in options[k]} : S \in SUBSET DOMAIN options}

(* a variable without a value, one whose value has the declared type, one *)
(* whose value is of another type that casts to the declared one, and one *)
(* whose value does not fit                                               *)
ContextVariables ==
    MapsOver([name \in {"test_var", "uninitialized"} |->
        {Variable(name, T("U32"), None, TRUE),
         Variable(name, T("U32"), Some(<<"U32", 42>>), TRUE),
         Variable(name, T("U64"), Some(<<"U32", 42>>), TRUE),
         Variable(name, T("U32"), Some(<<"String", "not a number">>), TRUE)}])

(* properties that mark an object for the validators *)
Markers(keys) == [k \in keys |-> <<"Bool", 1>>]

ContextObjects ==
    MapsOver([id \in {"test_mesh", "part"} |->
        {Object(id, "mesh", Markers({})),
         Object(id, "mesh", Markers({"non_manifold_edges"})),
         Object(id, "mesh", Markers({"non_manifold_edges", "open_edges",
                                     "disconnected_edges"})),
         Object(id, "box", Markers({"flipped_normals", "degenerate_faces"}))}])

ContextProperties == {EmptyMap, [k \in {"size_param"} |-> "2000"]}

ValidationContexts ==
    {ValidationContext(program_type, objs, variables, properties) :
        program_type \in {"cad", "test", "all"}, objs \in ContextObjects,
        variables \in ContextVariables, properties \in ContextProperties}

(* the text of the inputs of the parser, character by character *)
Chars_SET == <<"s", "e", "t">>

Chars_quoted_abc == <<"\"", "a", "b", "c", "\"">>

Chars_true == <<"t", "r", "u", "e">>

Chars_false == <<"f", "a", "l", "s", "e">>

Chars_20 == <<"2", "0">>

Chars_2_5 == <<"2", ".", "5">>

Chars_teeth == <<"t", "e", "e", "t", "h">>

Chars_module == <<"m", "o", "d", "u", "l", "e">>

Chars_equals == <<"=">>

Chars_gear == <<"g", "e", "a", "r">>

Chars_topology == <<"t", "o", "p", "o", "l", "o", "g", "y">>

Chars_gear_topology == <<"g", "e", "a", "r", ".", "t", "o", "p", "o", "l", "o", "g", "y">>

(* one operand of each form of the grammar, as its tokens *)
OperandForms ==
    {<<Chars_quoted_abc>>, <<Chars_true>>, <<Chars_false>>, <<Chars_20>>,
     <<Chars_2_5>>, <<Chars_teeth, Chars_equals, Chars_20>>,
     <<Chars_module, Chars_equals, Chars_2_5>>, <<Chars_gear_topology>>,
     <<Chars_gear>>}

(* the pieces with the separator between them *)
RECURSIVE Join(_, _)
Join(pieces, separator) ==
    IF pieces = <<>> THEN <<>>
    ELSE IF Len(pieces) = 1 THEN pieces[1]
    ELSE pieces[1] \o separator \o Join(Tail(pieces), separator)

(* the line of the mnemonic SET and the operands of the forms *)
LineOf(forms) == Join(<<Chars_SET>> \o Flatten(forms), <<" ">>)

OperandLines == {LineOf(forms) : forms \in SeqsUpTo(OperandForms, MaxOperands)}

LineNumbers == {1, 2}

(* lines of a source file: blank ones, comments, instructions and one     *)
(* with a string that is not closed                                       *)
Line_empty == <<>>

Line_spaces == <<" ", " ">>

Line_semicolon == <<";", " ", "c">>

Line_hash == <<" ", "#", " ", "c">>

Line_create == <<"c", "r", "e", "a", "t", "e", " ", "g", "e", "a", "r">>

Line_set == <<"S", "E", "T", " ", "t", "e", "e", "t", "h", " ", "=", " ", "2", "0">>

Line_unterminated == <<"S", "e", "t", " ", "n", " ", "=", " ", "\"", "a">>

SourceLines ==
    {Line_empty, Line_spaces, Line_semicolon, Line_hash, Line_create, Line_set,
     Line_unterminated}

(* the source file of the lines, with or without the last line feed *)
SourceOf(source_lines, terminated) ==
    Join(source_lines, <<"\n">>)
        \o (IF terminated /\ source_lines # <<>> THEN <<"\n">> ELSE <<>>)

Sources ==
    {SourceOf(source_lines, terminated) :
        source_lines \in SeqsUpTo(SourceLines, MaxLines),
        terminated \in BOOLEAN}

---------------------------------------------------------------------------
(* State machine: one action per call on the context or the executor.     *)
(* last records the call just made, its arguments and what it returned;   *)
(* last.call alternates with every call, so that a call that returns what *)
(* the call before it returned and changes nothing is a step all the same.*)

Call(op, args, r) ==
    /\ seq' = r.ctx.seq
    /\ scope_stack' = r.ctx.scope_stack
    /\ objects' = r.ctx.objects
    /\ symbol_table' = r.ctx.symbol_table
    /\ last' = [op |-> op, args |-> args, err |-> r.err, val |-> r.val,
                call |-> 1 - last.call]
    /\ UNCHANGED <<engine, builder, trace>>

(* a context, a rule engine and a builder as their constructors leave them *)
Constructed ==
    /\ seq = ExecutionContext_new.seq
    /\ scope_stack = ExecutionContext_new.scope_stack
    /\ objects = ExecutionContext_new.objects
    /\ symbol_table = ExecutionContext_new.symbol_table
    /\ engine = HierarchicalRuleEngine_new
    /\ builder = Some(BatchBuilder_new("RepairBlock", "run1"))
    /\ trace = <<>>

Init ==
    /\ Constructed
    /\ last = [op |-> "new", args |-> <<>>, err |-> "Ok", val |-> None,
               call |-> 0]

NextSeq ==
    /\ seq < MaxSeq
    /\ Call("next_seq", <<>>, Ret("Ok", None, next_seq(Ctx)))

PushScope(name) ==
    /\ Len(scope_stack) < MaxDepth
    /\ Call("push_scope", <<name>>, Ret("Ok", None, push_scope(Ctx, name)))

PopScope == Call("pop_scope", <<>>, pop_scope(Ctx))

DeclareVariable(name, var_type, mutable) ==
    Call("declare_variable", <<name, var_type, mutable>>,
         declare_variable(Ctx, name, var_type, mutable))

AssignVariable(name, value) ==
    Call("assign_variable", <<name, value>>, assign_variable(Ctx, name, value))

GetVariable(name) == Call("get_variable", <<name>>, get_variable(Ctx, name))

CreateObject(object_type, id) ==
    Call("create_object", <<object_type, id>>, create_object(Ctx, object_type, id))

GetObject(id) == Call("get_object", <<id>>, get_object(Ctx, id))

CreatePrimitive(primitive_type) ==
    Call("create_primitive", <<primitive_type>>,
         create_primitive(Ctx, primitive_type))

Execute(instruction) ==
    LET r == NativeExecutor_execute(instruction, Ctx)
    IN  /\ r.ctx.seq <= MaxSeq
        /\ Call("execute", <<instruction>>, r)

ExecuteBatch(instructions) ==
    LET r == execute_batch(instructions, Ctx)
    IN  /\ r.ctx.seq <= MaxSeq
        /\ Call("execute_batch", <<instructions>>, r)

(* one call on the rule engine *)
EngineCall(op, args, r) ==
    /\ engine' = r.engine
    /\ last' = [op |-> op, args |-> args, err |-> r.err, val |-> r.val,
                call |-> 1 - last.call]
    /\ UNCHANGED <<seq, scope_stack, objects, symbol_table, builder, trace>>

(* the number of register_rule calls so far *)
Registrations ==
    LET IndexLen(level) == IF level \in DOMAIN engine.level_index
                           THEN Len(engine.level_index[level]) ELSE 0
    IN  IndexLen("Core") + IndexLen("Domain") + IndexLen("Project")
            + IndexLen("Session")

RegisterRule(hrule) ==
    /\ Registrations < MaxRegistrations
    /\ EngineCall("register_rule", <<hrule>>,
                  ERet("Ok", None, register_rule(engine, hrule)))

EnableRule(rule_id) ==
    EngineCall("enable_rule", <<rule_id>>, enable_rule(engine, rule_id))

DisableRule(rule_id) ==
    EngineCall("disable_rule", <<rule_id>>, disable_rule(engine, rule_id))

GetResolvedRules(program_type) ==
    EngineCall("get_resolved_rules", <<program_type>>,
               ERet("Ok", get_resolved_rules(engine, program_type), engine))

GetRulesByLevel(level) ==
    EngineCall("get_rules_by_level", <<level>>,
               ERet("Ok", get_rules_by_level(engine, level), engine))

(* one call on the builder; trace is the list of the calls made on it *)
BuilderCall(op, args, b) ==
    /\ Len(trace) < MaxCalls
    /\ builder' = Some(b)
    /\ trace' = Append(trace, <<op, args>>)
    /\ last' = [op |-> op, args |-> args, err |-> "Ok", val |-> None,
                call |-> 1 - last.call]
    /\ UNCHANGED <<seq, scope_stack, objects, symbol_table, engine>>

NewBuilder(block_type, run_id) ==
    /\ builder' = Some(BatchBuilder_new(block_type, run_id))
    /\ trace' = <<>>
    /\ last' = [op |-> "BatchBuilder_new", args |-> <<block_type, run_id>>,
                err |-> "Ok", val |-> None, call |-> 1 - last.call]
    /\ UNCHANGED <<seq, scope_stack, objects, symbol_table, engine>>

AddInstruction(instruction) ==
    /\ builder # None
    /\ BuilderCall("add_instruction", <<instruction>>,
                   add_instruction(builder[1], instruction))

AddTarget(target) ==
    /\ builder # None
    /\ BuilderCall("add_target", <<target>>, add_target(builder[1], target))

AddRule(rule_id) ==
    /\ builder # None
    /\ BuilderCall("add_rule", <<rule_id>>, add_rule(builder[1], rule_id))

SetExecutionMode(mode) ==
    /\ builder # None
    /\ BuilderCall("set_execution_mode", <<mode>>,
                   set_execution_mode(builder[1], mode))

EnableCheckpoints ==
    /\ builder # None
    /\ BuilderCall("enable_checkpoints", <<>>, enable_checkpoints(builder[1]))

EnableTesting ==
    /\ builder # None
    /\ BuilderCall("enable_testing", <<>>, enable_testing(builder[1]))

EnableRepairLoop ==
    /\ builder # None
    /\ BuilderCall("enable_repair_loop", <<>>, enable_repair_loop(builder[1]))

RequireCompilableState ==
    /\ builder # None
    /\ BuilderCall("require_compilable_state", <<>>,
                   require_compilable_state(builder[1]))

(* build(self) consumes the builder *)
Build ==
    /\ builder # None
    /\ builder' = None
    /\ last' = [op |-> "build", args |-> <<>>, err |-> build(builder[1]).err,
                val |-> build(builder[1]).val, call |-> 1 - last.call]
    /\ UNCHANGED <<seq, scope_stack, objects, symbol_table, engine, trace>>

(* a call of a function of its arguments alone: the state holds the       *)
(* arguments drawn, then the call and what it returned                    *)
Input(args) ==
    [op |-> "input", args |-> args, err |-> "Ok", val |-> None, call |-> 0]

Apply(op, err, val) ==
    /\ last' = [last EXCEPT !.op = op, !.err = err, !.val = val,
                            !.call = 1 - last.call]
    /\ UNCHANGED <<seq, scope_stack, objects, symbol_table, engine, builder,
                   trace>>

CanCast ==
    /\ last.op = "input"
    /\ Apply("can_cast", "Ok", can_cast(last.args[1], last.args[2]))

ResolveConflicts ==
    /\ last.op = "input"
    /\ \E key_order \in Orders(DOMAIN GroupByBaseId(last.args[2])) :
           Apply("resolve_conflicts", "Ok",
                 resolve_conflicts(last.args[1], last.args[2], key_order))

DetectCircularOverrides ==
    /\ last.op = "input"
    /\ \E key_order \in Orders(DOMAIN last.args[1]) :
           LET r == detect_circular_overrides(last.args[1], key_order)
           IN  Apply("detect_circular_overrides", r.err, r.val)

ValidateOperation ==
    /\ last.op = "input"
    /\ LET r == validate_operation(last.args[1], last.args[2])
       IN  Apply("validate_operation", r.err, r.val)

(* a validator call: the call records the orders in which the HashMaps of *)
(* the context were walked                                                *)
Validate(op, orders, strict_mode, report) ==
    /\ last' = [op |-> op,
                args |-> <<last.args[1], orders[1], orders[2], orders[3],
                           strict_mode>>,
                err |-> "Ok", val |-> report, call |-> 1 - last.call]
    /\ UNCHANGED <<seq, scope_stack, objects, symbol_table, engine, builder,
                   trace>>

(* the orders in which the variables, the objects and the properties of   *)
(* the context may be walked                                              *)
WalkOrders(context) ==
    Orders(DOMAIN context.variables) \X Orders(DOMAIN context.objects)
        \X Orders(DOMAIN context.properties)

TypeValidate ==
    /\ last.op = "input"
    /\ \E orders \in WalkOrders(last.args[1]) :
           Validate("type_validate", orders, FALSE,
                    TypeValidator_validate(last.args[1], orders[1]))

TopologyValidate(strict_mode) ==
    /\ last.op = "input"
    /\ \E orders \in WalkOrders(last.args[1]) :
           Validate("topology_validate", orders, strict_mode,
                    TopologyValidator_validate(strict_mode, last.args[1],
                                               orders[2]))

RulesValidate ==
    /\ last.op = "input"
    /\ \E orders \in WalkOrders(last.args[1]) :
           Validate("rules_validate", orders, FALSE,
                    RulesValidator_validate(RulesValidator_new, last.args[1],
                                            orders[1], orders[2], orders[3]))

ValidateAll ==
    /\ last.op = "input"
    /\ \E orders \in WalkOrders(last.args[1]) :
           Validate("validate_all", orders, FALSE,
                    validate_all(last.args[1], orders[1], orders[2],
                                 orders[3]))

ParseLine ==
    /\ last.op = "input"
    /\ LET r == parse_line(last.args[1], last.args[2])
       IN  Apply("parse_line", r.err, r.val)

ParseFile ==
    /\ last.op = "input"
    /\ LET r == parse_file(last.args[1])
       IN  Apply("parse_file", r.err, r.val)

(* the scope and variable calls of ContextManager *)
NextScopes ==
    \/ \E name \in ScopeNames : PushScope(name)
    \/ PopScope
    \/ \E d \in DeclInputs : DeclareVariable(d[1], d[2], d[3])
    \/ \E name \in VarNames, value \in Values : AssignVariable(name, value)
    \/ \E name \in VarNames : GetVariable(name)

SpecScopes == Init /\ [][NextScopes]_vars

(* the object store calls of ContextManager and of the CAD engine *)
NextObjects ==
    \/ NextSeq
    \/ \E t \in ObjectTypes, id \in {None} \cup {Some(i) : i \in ExplicitIds} :
           CreateObject(t, id)
    \/ \E id \in ExplicitIds : GetObject(id)
    \/ \E t \in ObjectTypes : CreatePrimitive(t)

SpecObjects == Init /\ [][NextObjects]_vars

(* a host that declares variables and runs instructions through the executor *)
NextExec ==
    \/ \E d \in DeclInputs : DeclareVariable(d[1], d[2], d[3])
    \/ \E i \in Instructions : Execute(i)

SpecExec == Init /\ [][NextExec]_vars

(* a host that declares variables and runs batches through the executor *)
NextBatch ==
    \/ \E d \in DeclInputs : DeclareVariable(d[1], d[2], d[3])
    \/ \E b \in SeqsUpTo(BatchInstructions, MaxBatch) \cup ExampleBatches :
           ExecuteBatch(b)

SpecBatch == Init /\ [][NextBatch]_vars

(* a host that declares variables and assigns to them, directly and with  *)
(* SET through the executor                                               *)
NextAssign ==
    \/ \E d \in DeclInputs : DeclareVariable(d[1], d[2], d[3])
    \/ \E name \in VarNames, value \in Values : AssignVariable(name, value)
    \/ \E i \in {j \in Instructions : j.mnemonic = "SET"} : Execute(i)

SpecAssign == Init /\ [][NextAssign]_vars

(* the calls of HierarchicalRuleEngine *)
NextRules ==
    \/ \E hrule \in RuleInputs : RegisterRule(hrule)
    \/ \E rule_id \in RuleIds : EnableRule(rule_id)
    \/ \E rule_id \in RuleIds : DisableRule(rule_id)
    \/ \E program_type \in ProgramTypes : GetResolvedRules(program_type)
    \/ \E level \in RuleLevels : GetRulesByLevel(level)

SpecRules == Init /\ [][NextRules]_vars

(* the calls of BatchBuilder *)
NextBuilder ==
    \/ \E block_type \in BlockTypes, run_id \in RunIds :
           NewBuilder(block_type, run_id)
    \/ \E instruction \in BuilderInstructions : AddInstruction(instruction)
    \/ AddTarget("src/main.rs")
    \/ AddRule("fix_unsafe")
    \/ SetExecutionMode("Parallel")
    \/ EnableCheckpoints
    \/ EnableTesting
    \/ EnableRepairLoop
    \/ RequireCompilableState
    \/ Build

SpecBuilder == Init /\ [][NextBuilder]_vars

(* can_cast on every pair of CastTypes *)
InitCast ==
    /\ Constructed
    /\ last \in {Input(<<from, to>>) : from \in CastTypes, to \in CastTypes}

NextCast == CanCast

SpecCast == InitCast /\ [][NextCast]_vars

(* resolve_conflicts on every strategy and rule list of ConflictInputs *)
InitConflicts ==
    /\ Constructed
    /\ last \in {Input(input) : input \in ConflictInputs}

NextConflicts == ResolveConflicts

SpecConflicts == InitConflicts /\ [][NextConflicts]_vars

(* detect_circular_overrides on every rule map of CycleMaps *)
InitCycles ==
    /\ Constructed
    /\ last \in {Input(<<rules>>) : rules \in CycleMaps}

NextCycles == DetectCircularOverrides

SpecCycles == InitCycles /\ [][NextCycles]_vars

(* validate_operation on every operation and operand list of OperandLists *)
InitOps ==
    /\ Constructed
    /\ last \in {Input(<<op, operands>>) :
                    op \in Operations, operands \in OperandLists}

NextOps == ValidateOperation

SpecOps == InitOps /\ [][NextOps]_vars

(* the validators on every context of ValidationContexts *)
InitValidate ==
    /\ Constructed
    /\ last \in {Input(<<context>>) : context \in ValidationContexts}

NextValidate ==
    \/ TypeValidate
    \/ \E strict_mode \in BOOLEAN : TopologyValidate(strict_mode)
    \/ RulesValidate
    \/ ValidateAll

SpecValidate == InitValidate /\ [][NextValidate]_vars

(* parse_line on the lines of OperandLines; the third argument recorded   *)
(* is the list of forms the line was written from                         *)
InitParseLine ==
    /\ Constructed
    /\ last \in {Input(<<LineOf(forms), line_number, forms>>) :
                    forms \in SeqsUpTo(OperandForms, MaxOperands),
                    line_number \in LineNumbers}

NextParseLine == ParseLine

SpecParseLine == InitParseLine /\ [][NextParseLine]_vars

(* parse_file on the files of Sources; the second argument recorded is    *)
(* the list of lines the file was written from                            *)
InitParseFile ==
    /\ Constructed
    /\ last \in {Input(<<SourceOf(source_lines, terminated), source_lines>>) :
                    source_lines \in SeqsUpTo(SourceLines, MaxLines),
                    terminated \in BOOLEAN}

NextParseFile == ParseFile

SpecParseFile == InitParseFile /\ [][NextParseFile]_vars

---------------------------------------------------------------------------
(* Properties.  A step of the state machine is one call: last' names the  *)
(* call and its result, the unprimed variables are the context before it  *)
(* and the primed ones the context after it.                              *)

Called(op) == last'.op = op

Unchanged == Ctx' = Ctx

IsMnemonic(instruction, mnemonic) == to_uppercase(instruction.mnemonic) = mnemonic

(* the variable record of name in scope i keeps its type and mutable flag *)
SameScope(old, new) ==
    /\ new.name = old.name
    /\ DOMAIN old.variables \subseteq DOMAIN new.variables
    /\ \A n \in DOMAIN old.variables :
           /\ new.variables[n].var_type = old.variables[n].var_type
           /\ new.variables[n].mutable = old.variables[n].mutable

GlobalAtBottom(stack) == Len(stack) >= 1 /\ stack[1].name = "global"

C1_Step ==
    /\ GlobalAtBottom(scope_stack')
    /\ SameScope(scope_stack[1], scope_stack'[1])
    /\ (Called("pop_scope") /\ Len(scope_stack) = 1) =>
           /\ last'.err = "ScopeStackEmpty"
           /\ scope_stack' = scope_stack
           /\ Unchanged

(* C1: under any sequence of push_scope, pop_scope, declare_variable and   *)
(* assign_variable calls the scope stack holds at least one scope and the  *)
(* scope at index 0 stays the global scope made by the constructor (same   *)
(* name, no variable of it lost or retyped); pop_scope with exactly one    *)
(* scope left returns ScopeStackEmpty and leaves the stack unchanged.      *)
C1_GlobalScopeNeverPopped == GlobalAtBottom(scope_stack) /\ [][C1_Step]_vars

(* pop_scope has just been refused on a global scope that holds variables *)
C1_Witness ==
    /\ last.op = "pop_scope"
    /\ last.err = "ScopeStackEmpty"
    /\ Len(scope_stack) = 1
    /\ DOMAIN scope_stack[1].variables = {"x", "y"}

SuccessfulCreate ==
    /\ Called("execute")
    /\ IsMnemonic(last'.args[1], "CREATE")
    /\ last'.err = "Ok"

C2_Step ==
    /\ seq' >= seq
    /\ SuccessfulCreate =>
           /\ last'.val[1].output[1][2] \notin DOMAIN objects
           /\ DOMAIN objects' = DOMAIN objects \cup {last'.val[1].output[1][2]}
           /\ seq' = seq + 1
    /\ ~SuccessfulCreate => DOMAIN objects' = DOMAIN objects

(* C2: when instructions are run through the executor, every successful    *)
(* CREATE returns an id that no stored object has, the store grows by that *)
(* one id and by nothing else (so it holds one object per successful       *)
(* CREATE), the CREATE advances Seq by exactly one and Seq never goes down.*)
C2_CreateIdsDistinct == [][C2_Step]_vars

(* a second CREATE of the same type has succeeded after a SET in between *)
C2_Witness ==
    /\ last.op = "execute"
    /\ IsMnemonic(last.args[1], "CREATE")
    /\ last.err = "Ok"
    /\ {"box_0000", "box_0002"} \subseteq DOMAIN objects

C3_Step ==
    (Called("create_object") \/ Called("create_primitive")) =>
        /\ last'.err = "Ok"
        /\ last'.val[1] \notin DOMAIN objects
        /\ DOMAIN objects' = DOMAIN objects \cup {last'.val[1]}
        /\ \A id \in DOMAIN objects : objects'[id] = objects[id]

(* C3: object ids are unique across the run: every create_object call,    *)
(* with a generated or an explicit id, with or without next_seq between   *)
(* calls, adds one new object to the store and replaces no stored object. *)
C3_ObjectIdsUnique == [][C3_Step]_vars

(* position (0-based) of the first instruction of the list that fails when *)
(* the instructions are executed one by one from context c, the length of  *)
(* the list if none fails                                                  *)
RECURSIVE FirstFailure(_, _, _)
FirstFailure(instructions, i, c) ==
    IF i > Len(instructions) THEN Len(instructions)
    ELSE LET r == NativeExecutor_execute(instructions[i], c)
         IN  IF r.err # "Ok" THEN i - 1
             ELSE FirstFailure(instructions, i + 1, r.ctx)

C4_Step ==
    Called("execute_batch") =>
        LET instructions == last'.args[1]
            n == Len(instructions)
            k == FirstFailure(instructions, 1, Ctx)
            batch == last'.val[1]
        IN  /\ last'.err = "Ok"
            /\ Len(batch.individual_results) = k
            /\ batch.outcome = IF k < n THEN PartialSuccess(k, n) ELSE Success

(* C4: a batch of n instructions whose first failing instruction is at    *)
(* position k returns PartialSuccess{completed: k, total: n} with exactly *)
(* k individual results; a batch in which nothing fails returns Success   *)
(* with exactly n individual results.                                     *)
C4_BatchOutcome == [][C4_Step]_vars

(* the batch [valid, valid, invalid, valid] has returned 2 of 4 *)
C4_Witness ==
    /\ last.op = "execute_batch"
    /\ Len(last.args[1]) = 4
    /\ last.val[1].outcome = PartialSuccess(2, 4)
    /\ Len(last.val[1].individual_results) = 2

IsSetOfLiteral(instruction) ==
    /\ IsMnemonic(instruction, "SET")
    /\ Len(instruction.operands) >= 1
    /\ instruction.operands[1][1] = "Assignment"
    /\ instruction.operands[1][3][1] = "Literal"

HeldBySomeScope(stack, name) ==
    \E i \in 1..Len(stack) : name \in DOMAIN stack[i].variables

(* the innermost scope of the stack that holds name *)
Innermost(stack, name) ==
    CHOOSE i \in 1..Len(stack) :
        /\ name \in DOMAIN stack[i].variables
        /\ \A j \in (i + 1)..Len(stack) : name \notin DOMAIN stack[j].variables

(* the SET names an existing variable whose declared type refuses the literal *)
SetTypeFails(instruction) ==
    /\ IsSetOfLiteral(instruction)
    /\ HeldBySomeScope(scope_stack, instruction.operands[1][2])
    /\ LET name == instruction.operands[1][2]
           var == scope_stack[Innermost(scope_stack, name)].variables[name]
       IN  check_assignment(var.var_type,
                            infer_type(instruction.operands[1][3][2])) # "Ok"

C5_Step ==
    (Called("execute") /\ SetTypeFails(last'.args[1])) =>
        /\ last'.err = "TypeError"
        /\ Unchanged

(* C5: a SET whose target exists and whose literal fails check_assignment  *)
(* against the declared type returns TypeError and leaves the context as   *)
(* it was: every variable keeps its value, no object changes, Seq stays.   *)
C5_SetTypeErrorNoMutation == [][C5_Step]_vars

(* a SET has been refused on a variable that already holds a value *)
C5_Witness ==
    /\ last.op = "execute"
    /\ last.err = "TypeError"
    /\ "x" \in DOMAIN scope_stack[1].variables
    /\ scope_stack[1].variables["x"].value # None
    /\ seq > 0

C6_Step ==
    (/\ Called("execute")
     /\ IsSetOfLiteral(last'.args[1])
     /\ ~HeldBySomeScope(scope_stack, last'.args[1].operands[1][2])) =>
        last'.err = "Ok"

(* C6: a SET whose target variable exists in no scope is not type-checked *)
(* and the assignment proceeds: the SET does not fail for the missing     *)
(* target.                                                                *)
C6_SetMissingTargetProceeds == [][C6_Step]_vars

CreateEffect(good) ==
    IF good
    THEN /\ last'.err = "Ok"
         /\ LET id == last'.val[1].modified_objects[1]
            IN  /\ last'.val[1].outcome = Success
                /\ last'.val[1].output = Some(<<"String", id>>)
                /\ last'.val[1].modified_objects = <<id>>
                /\ id \in DOMAIN objects'
                /\ objects'[id].object_type = last'.args[1].operands[1][2]
                /\ seq' = seq + 1
    ELSE /\ last'.err = "InvalidInstruction"
         /\ objects' = objects
         /\ seq' = seq

C7_StepOriginal ==
    (Called("execute") /\ IsMnemonic(last'.args[1], "CREATE")) =>
        LET operands == last'.args[1].operands
        IN  CreateEffect(Len(operands) = 1 /\ operands[1][1] = "Identifier")

(* C7 as claimed: CREATE succeeds only with exactly one operand that is an *)
(* Identifier, and fails with InvalidInstruction otherwise.                *)
C7_CreateExactlyOneOperand == [][C7_StepOriginal]_vars

C7_Step ==
    (Called("execute") /\ IsMnemonic(last'.args[1], "CREATE")) =>
        LET operands == last'.args[1].operands
        IN  CreateEffect(Len(operands) >= 1 /\ operands[1][1] = "Identifier")

(* C7 amended: CREATE succeeds exactly when it has at least one operand   *)
(* and the first operand is an Identifier (later operands are ignored);   *)
(* with no operand or another first operand it fails InvalidInstruction,  *)
(* creates no object and keeps Seq.  On success the new id is the output  *)
(* and the sole modified object.                                          *)
C7_CreateFirstOperandIdentifier == [][C7_Step]_vars

(* a CREATE with two operands has succeeded *)
C7_Witness ==
    /\ last.op = "execute"
    /\ IsMnemonic(last.args[1], "CREATE")
    /\ Len(last.args[1].operands) = 2
    /\ last.err = "Ok"
    /\ last.val[1].modified_objects[1] \in DOMAIN objects

C8_Step ==
    Called("declare_variable") =>
        LET name == last'.args[1]
            top == Len(scope_stack)
        IN  /\ last'.err \in {"Ok", "VariableAlreadyDefined"}
            /\ last'.err = "VariableAlreadyDefined" <=>
                   name \in DOMAIN scope_stack[top].variables
            /\ last'.err = "VariableAlreadyDefined" => scope_stack' = scope_stack
            /\ last'.err = "Ok" =>
                   /\ Len(scope_stack') = top
                   /\ \A i \in 1..(top - 1) : scope_stack'[i] = scope_stack[i]
                   /\ scope_stack'[top].variables[name] =
                          [name |-> name, var_type |-> last'.args[2],
                           value |-> None, mutable |-> last'.args[3]]

(* C8: declare_variable fails with VariableAlreadyDefined exactly when the *)
(* name is already declared in the innermost scope, and then changes no    *)
(* variable; declaring a name held only by an outer scope succeeds and     *)
(* leaves the outer scopes as they were.                                   *)
C8_DeclarePerScope == [][C8_Step]_vars

(* x has been declared in a child scope while the global scope holds an x *)
(* of another type and with a value                                       *)
C8_Witness ==
    /\ last.op = "declare_variable"
    /\ last.err = "Ok"
    /\ last.args[1] = "x"
    /\ Len(scope_stack) = 2
    /\ "x" \in DOMAIN scope_stack[1].variables
    /\ scope_stack[1].variables["x"].value # None
    /\ scope_stack[1].variables["x"].var_type # scope_stack[2].variables["x"].var_type

C9_Step ==
    /\ Called("get_variable") =>
           /\ Unchanged
           /\ IF HeldBySomeScope(scope_stack, last'.args[1])
              THEN /\ last'.err = "Ok"
                   /\ last'.val =
                          Some(scope_stack[Innermost(scope_stack, last'.args[1])]
                                   .variables[last'.args[1]])
              ELSE last'.err = "VariableNotFound"
    /\ Called("assign_variable") =>
           IF HeldBySomeScope(scope_stack, last'.args[1])
           THEN LET name == last'.args[1]
                    i == Innermost(scope_stack, name)
                IN  /\ last'.err = "Ok"
                    /\ scope_stack' =
                           [scope_stack EXCEPT
                              ![i].variables[name].value = Some(last'.args[2])]
           ELSE /\ last'.err = "VariableNotFound"
                /\ Unchanged
    /\ (Called("pop_scope") /\ last'.err = "Ok") =>
           scope_stack' = SubSeq(scope_stack, 1, Len(scope_stack) - 1)
    /\ Called("push_scope") =>
           SubSeq(scope_stack', 1, Len(scope_stack)) = scope_stack

(* C9: get_variable and assign_variable resolve a name to the innermost    *)
(* scope declaring it: get_variable returns that scope's variable,         *)
(* assign_variable changes the value of that one variable and nothing else *)
(* in any scope, push_scope and pop_scope leave the scopes below the top   *)
(* as they are (so a shadowed variable is visible again, with its value,   *)
(* after the pop), and both calls fail with VariableNotFound, changing     *)
(* nothing, when no scope holds the name.                                  *)
C9_InnermostResolution == [][C9_Step]_vars

(* the child's x has been assigned while the parent's x keeps another value *)
C9_Witness ==
    /\ last.op = "assign_variable"
    /\ last.err = "Ok"
    /\ last.args[1] = "x"
    /\ Len(scope_stack) = 2
    /\ "x" \in DOMAIN scope_stack[1].variables
    /\ "x" \in DOMAIN scope_stack[2].variables
    /\ scope_stack[1].variables["x"].value # None
    /\ scope_stack[2].variables["x"].value = Some(last.args[2])
    /\ scope_stack[1].variables["x"].value # scope_stack[2].variables["x"].value

C10_Step ==
    (/\ Called("execute")
     /\ to_uppercase(last'.args[1].mnemonic) \notin RegisteredMnemonics) =>
        /\ last'.err = "Ok"
        /\ last'.val = Some(ExecutionResult(Success, None, <<>>))
        /\ Unchanged

(* C10: an instruction whose mnemonic has no registered handler returns Ok *)
(* with outcome Success, no output and no modified objects, and leaves     *)
(* scopes, objects, Seq and the symbol table unchanged.                    *)
C10_UnregisteredSucceeds == [][C10_Step]_vars

(* FOO has been executed on a context holding a variable and an object *)
C10_Witness ==
    /\ last.op = "execute"
    /\ last.args[1].mnemonic = "FOO"
    /\ last.err = "Ok"
    /\ DOMAIN objects # {}
    /\ DOMAIN scope_stack[1].variables # {}

---------------------------------------------------------------------------
(* Properties of the rule engine, the resolver, the builder and can_cast  *)

Range(s) == {s[i] : i \in 1..Len(s)}

(* the ids of a list of rules are pairwise different *)
DistinctIds(hrules) ==
    \A i, j \in 1..Len(hrules) :
        hrules[i].rule.id = hrules[j].rule.id => i = j

(* the rules registered in e that are enabled and of program_type *)
EnabledOf(e, program_type) ==
    {hr \in {e.rules[id] : id \in DOMAIN e.rules} :
        hr.enabled /\ hr.rule.program_type = program_type}

C11_Step ==
    Called("get_resolved_rules") =>
        LET result == last'.val
            candidates == EnabledOf(engine, last'.args[1])
        IN  /\ Range(result) =
                   {hr \in candidates :
                       \A holder \in candidates :
                           holder.overrides # Some(hr.rule.id)}
            /\ DistinctIds(result)
            /\ \A i, j \in 1..Len(result) :
                   i < j => priority(result[i].level) >= priority(result[j].level)
            /\ (/\ last'.args[1] = "cad"
                /\ DOMAIN engine.rules = {CoreMaxDepth, SessionMaxDepth}
                /\ engine.rules[CoreMaxDepth] = core_rule
                /\ engine.rules[SessionMaxDepth] = session_rule) =>
                   result = <<session_rule>>

(* C11: after any sequence of register_rule, enable_rule and disable_rule  *)
(* calls, get_resolved_rules(program_type) returns exactly the enabled     *)
(* rules of that program type whose id is not the overrides target of any  *)
(* enabled rule of that program type, each once, ordered by level          *)
(* descending; the Core rule core_max_depth and the Session rule           *)
(* session_max_depth overriding it resolve to exactly the session rule.    *)
C11_ResolvedRulesExact == [][C11_Step]_vars

C12_Step ==
    Called("get_resolved_rules") =>
        LET result == last'.val
            candidates == EnabledOf(engine, last'.args[1])
        IN  \A hr \in candidates :
                hr \notin Range(result) =>
                    \E holder \in candidates :
                        /\ holder.overrides = Some(hr.rule.id)
                        /\ priority(holder.level) > priority(hr.level)

(* C12: level is the override priority in get_resolved_rules: an enabled   *)
(* rule of the program type is missing from the result only if a rule of   *)
(* strictly higher level holds an overrides link to it; a link held by a   *)
(* rule of lower or equal level never suppresses its target.               *)
C12_OverrideNeedsHigherLevel == [][C12_Step]_vars

(* c is a cycle of the overrides graph of rules *)
IsCycle(rules, c) ==
    /\ Len(c) >= 1
    /\ \A i \in 1..Len(c) :
           /\ c[i] \in DOMAIN rules
           /\ rules[c[i]].overrides = Some(c[(i % Len(c)) + 1])

HasCycle(rules) ==
    \E n \in 1..Cardinality(DOMAIN rules) :
        \E c \in [1..n -> DOMAIN rules] : IsCycle(rules, c)

(* C13: detect_circular_overrides reports a cycle exactly when the         *)
(* overrides graph has one: it returns, the list is empty for an acyclic   *)
(* rule map and not empty for a cyclic one, two rules whose overrides      *)
(* point at each other yield a cycle of exactly those 2 ids, and every     *)
(* reported list is a cycle of the graph.                                  *)
C13_CyclesReportedExactly ==
    last.op = "detect_circular_overrides" =>
        LET rules == last.args[1]
            cycles == last.val
        IN  /\ last.err = "Ok"
            /\ (cycles # <<>>) <=> HasCycle(rules)
            /\ \A i \in 1..Len(cycles) : IsCycle(rules, cycles[i])
            /\ \A a, b \in DOMAIN rules :
                   (/\ a # b
                    /\ rules[a].overrides = Some(b)
                    /\ rules[b].overrides = Some(a)) =>
                       \E i \in 1..Len(cycles) :
                           Len(cycles[i]) = 2 /\ Range(cycles[i]) = {a, b}

C14_Step ==
    (Called("get_resolved_rules") \/ Called("get_rules_by_level")) =>
        DistinctIds(last'.val)

(* C14: rule ids are unique within an engine: after any sequence of        *)
(* register_rule calls, one that registers an id again included,           *)
(* get_resolved_rules and get_rules_by_level each return every rule id at  *)
(* most once.                                                              *)
C14_RuleIdsReturnedOnce == [][C14_Step]_vars

(* the engine e but for the enabled flag of rule_id, which is flag *)
WithEnabled(e, rule_id, flag) == [e EXCEPT !.rules[rule_id].enabled = flag]

(* disable_rule then enable_rule on rule_id gives back what               *)
(* get_resolved_rules returned before the two calls                       *)
RoundTrip(e, rule_id) ==
    LET back == enable_rule(disable_rule(e, rule_id).engine, rule_id).engine
    IN  \A program_type \in ProgramTypes :
            get_resolved_rules(back, program_type) =
                get_resolved_rules(e, program_type)

C15_Flags ==
    /\ \A flag \in BOOLEAN :
           (Called(IF flag THEN "enable_rule" ELSE "disable_rule")) =>
               IF last'.args[1] \in DOMAIN engine.rules
               THEN /\ last'.err = "Ok"
                    /\ engine' = WithEnabled(engine, last'.args[1], flag)
               ELSE /\ last'.err = "RuleNotFound"
                    /\ engine' = engine
    /\ Called("get_resolved_rules") =>
           \A i \in 1..Len(last'.val) :
               /\ last'.val[i].enabled
               /\ engine.rules[last'.val[i].rule.id].enabled

C15_StepOriginal ==
    /\ C15_Flags
    /\ \A rule_id \in DOMAIN engine'.rules : RoundTrip(engine', rule_id)

(* C15 as stated: enable_rule and disable_rule on a registered id set its  *)
(* enabled flag and return Ok, on an unregistered id they return           *)
(* RuleNotFound and leave the engine unchanged; a disabled rule is never   *)
(* returned by get_resolved_rules; disable_rule followed by enable_rule on *)
(* the same id restores the result get_resolved_rules gave before,         *)
(* whatever the flag of the rule was.                                      *)
C15_RoundTripAnyRule == [][C15_StepOriginal]_vars

C15_Step ==
    /\ C15_Flags
    /\ \A rule_id \in DOMAIN engine'.rules :
           engine'.rules[rule_id].enabled => RoundTrip(engine', rule_id)

(* C15: as above, the round trip holding for a rule that was enabled       *)
(* before the disable_rule: disable_rule followed by enable_rule on an     *)
(* enabled rule restores the result get_resolved_rules gave before.        *)
C15_EnableDisable == [][C15_Step]_vars

(* both rules of the test are registered, the last call enabled           *)
(* session_max_depth and the session rule resolves alone                  *)
C15_Witness ==
    /\ last.op = "enable_rule"
    /\ last.args = <<SessionMaxDepth>>
    /\ last.err = "Ok"
    /\ DOMAIN engine.rules = {CoreMaxDepth, SessionMaxDepth}
    /\ get_resolved_rules(engine, "cad") = <<session_rule>>

(* the id with a leading level prefix and its underscore removed *)
BaseIdOf(id) ==
    IF Len(id) > 1 /\ id[1] \in {"core", "domain", "project", "session"}
    THEN SubSeq(id, 2, Len(id))
    ELSE id

IsTestInput ==
    /\ last.op = "resolve_conflicts"
    /\ last.args = <<"MostSpecificWins", <<core_rule, session_rule>>>>

C18_SymbolTableMirrors ==
    /\ \A i \in 1..Len(scope_stack) :
           \A name \in DOMAIN scope_stack[i].variables :
               /\ name \in DOMAIN symbol_table
               /\ symbol_table[name].data_type =
                      get_variable(Ctx, name).val[1].var_type
    /\ \A id \in DOMAIN objects :
           /\ id \in DOMAIN symbol_table
           /\ symbol_table[id].data_type = ObjectType(objects[id].object_type)

(* op is among the calls made on the builder *)
WasCalled(op) == \E i \in 1..Len(trace) : trace[i][1] = op

(* the instructions handed to add_instruction, in call order *)
AddedInstructions ==
    LET IsAdd(call) == call[1] = "add_instruction"
        adds == SelectSeq(trace, IsAdd)
    IN  [i \in 1..Len(adds) |-> adds[i][2][1]]

C19_Step ==
    Called("build") =>
        /\ (last'.err = "NoInstructions") <=> ~WasCalled("add_instruction")
        /\ last'.err = "NoInstructions" => last'.val = None
        /\ WasCalled("add_instruction") =>
               LET block == last'.val[1]
               IN  /\ last'.err = "Ok"
                   /\ block.instructions = AddedInstructions
                   /\ block.checkpoint_before <=> WasCalled("enable_checkpoints")
                   /\ block.checkpoint_after <=> WasCalled("enable_checkpoints")
                   /\ block.test_after_execution <=> WasCalled("enable_testing")
                   /\ block.repair_on_failure <=> WasCalled("enable_repair_loop")
                   /\ block.require_compilable_state
                          <=> WasCalled("require_compilable_state")

(* C19: after any sequence of builder calls build() returns                *)
(* Err(NoInstructions) exactly when add_instruction was never called;      *)
(* otherwise it returns a block whose instructions are the added ones in   *)
(* order and whose flags are true exactly for the enable methods called,   *)
(* enable_checkpoints setting both checkpoint_before and checkpoint_after. *)
C19_BuildReflectsCalls == [][C19_Step]_vars

(* a block has been built after add_instruction twice and                 *)
(* enable_checkpoints                                                     *)
C19_Witness ==
    /\ last.op = "build"
    /\ last.err = "Ok"
    /\ Len(last.val[1].instructions) = 2
    /\ last.val[1].instructions[1] # last.val[1].instructions[2]
    /\ last.val[1].checkpoint_before
    /\ last.val[1].checkpoint_after
    /\ ~last.val[1].test_after_execution

(* the casts between different types that the claim allows *)
AllowedCasts ==
    {<<"U8", "U16">>, <<"U8", "U32">>, <<"U8", "U64">>, <<"U16", "U32">>,
     <<"U16", "U64">>, <<"U32", "U64">>,
     <<"I8", "I16">>, <<"I8", "I32">>, <<"I8", "I64">>, <<"I16", "I32">>,
     <<"I16", "I64">>, <<"I32", "I64">>,
     <<"F32", "F64">>,
     <<"U8", "F32">>, <<"U16", "F32">>, <<"U32", "F32">>, <<"I8", "F32">>,
     <<"I16", "F32">>, <<"I32", "F32">>,
     <<"U8", "F64">>, <<"U16", "F64">>, <<"U32", "F64">>, <<"I8", "F64">>,
     <<"I16", "F64">>, <<"I32", "F64">>}

(* C20: for every pair (a, b) of types can_cast(a, b) is true iff a = b,   *)
(* or b is a wider type of the family of a (U8 < U16 < U32 < U64,          *)
(* I8 < I16 < I32 < I64, F32 < F64), or a is one of U8, U16, U32, I8, I16, *)
(* I32 and b is F32 or F64; no narrowing, float-to-integer or              *)
(* cross-signedness cast is allowed.                                       *)
C20_CanCastTable ==
    last.op = "can_cast" =>
        LET a == last.args[1]
            b == last.args[2]
        IN  last.val <=>
                \/ a = b
                \/ /\ Len(a) = 1
                   /\ Len(b) = 1
                   /\ <<a[1], b[1]>> \in AllowedCasts

(* can_cast has refused U64 to F64, the integer type that is not among    *)
(* the ones that convert to a float type                                  *)
C20_Witness ==
    /\ last.op = "can_cast"
    /\ last.args = <<T("U64"), T("F64")>>
    /\ last.val = FALSE

---------------------------------------------------------------------------
(* Properties of validate_operation, the validators and the parser        *)

NumericTypes ==
    {T(kind) : kind \in {"U8", "U16", "U32", "U64", "I8", "I16", "I32", "I64",
                         "F32", "F64"}}

(* C21: validate_operation for Add, Subtract, Multiply, Divide and Modulo  *)
(* returns Ok(T) for operands [T, T] for every numeric type T (U8, U16,    *)
(* U32, U64, I8, I16, I32, I64, F32, F64), and InvalidOperation for two    *)
(* different types, a non-numeric type, or an operand count other than 2.  *)
C21_ArithmeticSameNumericType ==
    (/\ last.op = "validate_operation"
     /\ last.args[1] \in {"Add", "Subtract", "Multiply", "Divide", "Modulo"}) =>
        LET operands == last.args[2]
        IN  IF /\ Len(operands) = 2
               /\ operands[1] = operands[2]
               /\ operands[1] \in NumericTypes
            THEN last.err = "Ok" /\ last.val = Some(operands[1])
            ELSE last.err = "InvalidOperation"

(* the names of the variables of the context that have no value *)
Uninitialized(context) ==
    {name \in DOMAIN context.variables : context.variables[name].value = None}

HasError(report) ==
    \E i \in 1..Len(report.issues) : report.issues[i].severity = "Error"

(* C22: the RulesValidator with the built-in rules reports an issue that   *)
(* says the variable is declared but not initialized whenever the context  *)
(* holds a variable with no value, whatever the program type of the        *)
(* context.                                                                *)
C22_UninitializedReported ==
    (/\ last.op = "rules_validate"
     /\ Uninitialized(last.args[1]) # {}) =>
        \E i \in 1..Len(last.val.issues), name \in Uninitialized(last.args[1]) :
            last.val.issues[i].message =
                <<"Variable '", name, "' declared but not initialized">>

(* the TYPE_MISMATCH issues of the report that name the variable *)
MismatchesOf(report, name) ==
    {i \in 1..Len(report.issues) :
        /\ report.issues[i].code = "TYPE_MISMATCH"
        /\ report.issues[i].severity = "Error"
        /\ report.issues[i].message[2] = name}

(* C23, as stated: the TypeValidator reports one Error issue coded         *)
(* TYPE_MISMATCH for every variable whose value has an inferred type       *)
(* different from the declared type, none for a variable with no value or  *)
(* with the declared type, and the report fails iff there is such an       *)
(* issue.                                                                  *)
C23_MismatchWhenTypesDiffer ==
    last.op = "type_validate" =>
        LET context == last.args[1]
            Differs(name) ==
                /\ context.variables[name].value # None
                /\ infer_type(context.variables[name].value[1])
                       # context.variables[name].var_type
        IN  /\ \A name \in DOMAIN context.variables :
                   Cardinality(MismatchesOf(last.val, name)) =
                       IF Differs(name) THEN 1 ELSE 0
            /\ last.val.passed <=>
                   ~\E name \in DOMAIN context.variables : Differs(name)

(* C23, amended: the TypeValidator reports one Error issue coded           *)
(* TYPE_MISMATCH for every variable whose value has an inferred type that  *)
(* is neither the declared type nor a type that casts to it, no issue at   *)
(* all for any other variable, and the report fails iff there is such an   *)
(* issue.                                                                  *)
C23_MismatchWhenNotAssignable ==
    last.op = "type_validate" =>
        LET context == last.args[1]
            Unfit(name) ==
                LET variable == context.variables[name]
                    inferred == infer_type(variable.value[1])
                IN  /\ variable.value # None
                    /\ inferred # variable.var_type
                    /\ ~(/\ Len(inferred) = 1
                         /\ Len(variable.var_type) = 1
                         /\ <<inferred[1], variable.var_type[1]>>
                                \in AllowedCasts)
            unfit == {name \in DOMAIN context.variables : Unfit(name)}
        IN  /\ \A name \in DOMAIN context.variables :
                   Cardinality(MismatchesOf(last.val, name)) =
                       IF name \in unfit THEN 1 ELSE 0
            /\ Len(last.val.issues) = Cardinality(unfit)
            /\ last.val.passed <=> unfit = {}

(* the TypeValidator has passed, without an issue, a context whose only   *)
(* variable is declared U64 and holds a U32 value                          *)
C23_Witness ==
    /\ last.op = "type_validate"
    /\ DOMAIN last.args[1].variables = {"test_var"}
    /\ last.args[1].variables["test_var"].var_type = T("U64")
    /\ last.args[1].variables["test_var"].value = Some(<<"U32", 42>>)
    /\ last.val.passed
    /\ last.val.issues = <<>>

(* the issues of the report located at the object *)
IssuesAt(report, obj_id) ==
    {i \in 1..Len(report.issues) :
        /\ report.issues[i].location # None
        /\ report.issues[i].location[1].object_id = Some(obj_id)}

(* C24: in non-strict mode and for program type "cad" the                  *)
(* TopologyValidator yields exactly one Error issue coded NOT_MANIFOLD for *)
(* each object that carries the property non_manifold_edges, and no other  *)
(* issue for an object that carries only that marker, so the report fails; *)
(* for any other program type the same objects yield an empty, passing     *)
(* report.                                                                 *)
C24_NotManifoldOnlyForCad ==
    (last.op = "topology_validate" /\ ~last.args[5]) =>
        LET context == last.args[1]
            marked == {obj_id \in DOMAIN context.objects :
                          "non_manifold_edges"
                              \in DOMAIN context.objects[obj_id].properties}
            not_manifold == {i \in 1..Len(last.val.issues) :
                                /\ last.val.issues[i].code = "NOT_MANIFOLD"
                                /\ last.val.issues[i].severity = "Error"}
        IN  IF context.program_type = "cad"
            THEN /\ \A obj_id \in DOMAIN context.objects :
                        Cardinality(IssuesAt(last.val, obj_id)
                                    \cap not_manifold) =
                            IF obj_id \in marked THEN 1 ELSE 0
                 /\ \A obj_id \in marked :
                        DOMAIN context.objects[obj_id].properties
                                = {"non_manifold_edges"} =>
                            Cardinality(IssuesAt(last.val, obj_id)) = 1
                 /\ Cardinality(not_manifold) = Cardinality(marked)
                 /\ marked # {} => ~last.val.passed
            ELSE /\ last.val.issues = <<>>
                 /\ last.val.passed

(* the non-strict TopologyValidator has failed a "cad" context whose two   *)
(* objects carry only non_manifold_edges, with two issues                  *)
C24_Witness ==
    /\ last.op = "topology_validate"
    /\ ~last.args[5]
    /\ last.args[1].program_type = "cad"
    /\ DOMAIN last.args[1].objects = {"test_mesh", "part"}
    /\ \A obj_id \in DOMAIN last.args[1].objects :
           DOMAIN last.args[1].objects[obj_id].properties
               = {"non_manifold_edges"}
    /\ Len(last.val.issues) = 2
    /\ ~last.val.passed

(* the sub-reports that validate_all runs on the context, in its order *)
SubReports(context, var_order, obj_order, prop_order) ==
    <<TypeValidator_validate(context, var_order)>>
    \o (IF context.program_type = "cad"
        THEN <<TopologyValidator_validate(FALSE, context, obj_order)>>
        ELSE <<>>)
    \o <<RulesValidator_validate(RulesValidator_new, context, var_order,
                                 obj_order, prop_order)>>

(* C25: validate_all returns a report whose passed flag is the AND of the  *)
(* passed flags of the sub-reports it ran (passed is false iff some merged *)
(* issue has severity Error) and whose issues are the issues of the        *)
(* sub-reports concatenated in the order type, topology, rules; the        *)
(* topology validator contributes only when the program type is "cad".     *)
C25_CombinedIsMergeInOrder ==
    last.op = "validate_all" =>
        LET ran == SubReports(last.args[1], last.args[2], last.args[3],
                              last.args[4])
        IN  /\ last.val.issues =
                   Flatten([i \in 1..Len(ran) |-> ran[i].issues])
            /\ last.val.passed <=> \A i \in 1..Len(ran) : ran[i].passed
            /\ ~last.val.passed <=> HasError(last.val)
            /\ last.args[1].program_type # "cad" =>
                   \A i \in 1..Len(last.val.issues) :
                       last.val.issues[i].location = None

(* validate_all has merged, for a "cad" context, a TYPE_MISMATCH of the    *)
(* type validator, a NOT_MANIFOLD of the topology validator and an         *)
(* edges_connected of the rules validator, in that order                   *)
C25_Witness ==
    /\ last.op = "validate_all"
    /\ last.args[1].program_type = "cad"
    /\ Len(last.val.issues) >= 3
    /\ last.val.issues[1].code = "TYPE_MISMATCH"
    /\ last.val.issues[2].code = "NOT_MANIFOLD"
    /\ last.val.issues[Len(last.val.issues)].code = "edges_connected"
    /\ ~last.val.passed

(* the operand the grammar gives a form of OperandForms *)
GrammarOperand(form) ==
    CASE form = <<Chars_quoted_abc>> -> Literal(<<"String", <<"a", "b", "c">>>>)
      [] form = <<Chars_true>> -> Literal(<<"Bool", 1>>)
      [] form = <<Chars_false>> -> Literal(<<"Bool", 0>>)
      [] form = <<Chars_20>> -> Literal(<<"U32", 20>>)
      [] form = <<Chars_2_5>> ->
             Literal(<<"F64", [negative |-> FALSE, digits |-> <<"2", "5">>,
                               exponent |-> -1]>>)
      [] form = <<Chars_teeth, Chars_equals, Chars_20>> ->
             Assignment(Chars_teeth, Literal(<<"U32", 20>>))
      [] form = <<Chars_module, Chars_equals, Chars_2_5>> ->
             Assignment(Chars_module,
                 Literal(<<"F64", [negative |-> FALSE, digits |-> <<"2", "5">>,
                                   exponent |-> -1]>>))
      [] form = <<Chars_gear_topology>> -> Property(Chars_gear, Chars_topology)
      [] form = <<Chars_gear>> -> Identifier(Chars_gear)

(* C26: parse_line maps every operand token to the operand kind of its     *)
(* grammar form, wherever the token stands among the operands: a quoted    *)
(* string to Literal(String), true and false to Literal(Bool), an unsigned *)
(* integer to Literal(U32), a float such as 2.5 to Literal(F64),           *)
(* name = value to Assignment, object.property to Property, and any other  *)
(* token to Identifier.                                                    *)
C26_OperandKindByForm ==
    last.op = "parse_line" =>
        /\ last.err = "Ok"
        /\ last.val # None
        /\ last.val[1].operands =
               [i \in 1..Len(last.args[3]) |-> GrammarOperand(last.args[3][i])]

(* what a line of SourceLines is *)
LineKind(line) ==
    CASE line \in {Line_empty, Line_spaces} -> "blank"
      [] line \in {Line_semicolon, Line_hash} -> "comment"
      [] line = Line_unterminated -> "unterminated"
      [] OTHER -> "instruction"

(* the mnemonic of an instruction line of SourceLines, in upper case *)
MnemonicOf(line) ==
    IF line = Line_create THEN <<"C", "R", "E", "A", "T", "E">>
    ELSE <<"S", "E", "T">>

(* C27: parse_file yields one Instruction for each source line that is     *)
(* neither blank nor a comment (its trimmed form starts with ; or #), in   *)
(* source order, each with the mnemonic in upper case and the 1-based      *)
(* number of its line; if a line fails to parse, parse_file returns that   *)
(* ParseError and no instructions.                                         *)
C27_OneInstructionPerLine ==
    last.op = "parse_file" =>
        LET source_lines == last.args[2]
            Lines(kind) == {k \in 1..Len(source_lines) :
                               LineKind(source_lines[k]) = kind}
            failing == Lines("unterminated")
            parsed == Lines("instruction")
        IN  IF failing # {}
            THEN /\ last.err = UnterminatedString(
                                   CHOOSE k \in failing :
                                       \A m \in failing : k <= m)
                 /\ last.val = <<>>
            ELSE /\ last.err = "Ok"
                 /\ Len(last.val) = Cardinality(parsed)
                 /\ \A j \in 1..Len(last.val) :
                        LET k == CHOOSE k \in parsed :
                                     Cardinality({m \in parsed : m <= k}) = j
                        IN  /\ last.val[j].mnemonic
                                   = MnemonicOf(source_lines[k])
                            /\ last.val[j].line_number = k

(* parse_file has read a blank line, a comment that starts with # and the  *)
(* line "create gear", and returned the one instruction CREATE of line 3   *)
C27_Witness ==
    /\ last.op = "parse_file"
    /\ last.args[2] = <<Line_empty, Line_hash, Line_create>>
    /\ last.err = "Ok"
    /\ Len(last.val) = 1
    /\ last.val[1].mnemonic = <<"C", "R", "E", "A", "T", "E">>
    /\ last.val[1].line_number = 3

(* C28: whenever the search of detect_circular_overrides meets an          *)
(* overrides target that is marked as on the recursion stack, the target   *)
(* is in the current path and the path from it onward is returned as the   *)
(* cycle: for every rule map and every visiting order the call returns a   *)
(* result instead of aborting (it aborts exactly when a marked target is   *)
(* not in the path).                                                       *)
C28_MarkedTargetIsInPath ==
    last.op = "detect_circular_overrides" => last.err # "Panic"

(* the context after the first k instructions of the list are executed    *)
(* one by one from context c                                              *)
RECURSIVE ExecutePrefix(_, _, _)
ExecutePrefix(instructions, k, c) ==
    IF k = 0 THEN c
    ELSE NativeExecutor_execute(instructions[k],
                                ExecutePrefix(instructions, k - 1, c)).ctx

C29_Step ==
    Called("execute_batch") =>
        LET instructions == last'.args[1]
            k == FirstFailure(instructions, 1, Ctx)
        IN  /\ Ctx' = ExecutePrefix(instructions, k, Ctx)
            /\ k < Len(instructions) =>
                   /\ NativeExecutor_execute(instructions[k + 1], Ctx').err
                          # "Ok"
                   /\ NativeExecutor_execute(instructions[k + 1], Ctx').ctx
                          = Ctx'

(* C29: execute_batch runs the instructions in list order and executes     *)
(* none after the first failing one: when it returns, the context is the   *)
(* result of executing exactly the instructions before the first failure   *)
(* one by one, the effects of that prefix are kept (no rollback) and the   *)
(* failing instruction has changed nothing.                                *)
C29_BatchStopsAtFirstFailure == [][C29_Step]_vars

(* the batch [SET x = 7, CREATE without operand] has failed at its second  *)
(* instruction and x keeps the value the first one gave it                 *)
C29_Witness ==
    /\ last.op = "execute_batch"
    /\ Len(last.args[1]) = 2
    /\ IsMnemonic(last.args[1][1], "SET")
    /\ last.val[1].outcome = PartialSuccess(1, 2)
    /\ "x" \in DOMAIN scope_stack[1].variables
    /\ scope_stack[1].variables["x"].value = Some(<<"U32", 7>>)

(* the mutable flags of the variables, scope by scope *)
MutableFlags(stack) ==
    [i \in 1..Len(stack) |->
        [n \in DOMAIN stack[i].variables |-> stack[i].variables[n].mutable]]

C30_Step ==
    /\ (/\ Called("assign_variable")
        /\ HeldBySomeScope(scope_stack, last'.args[1])) =>
           LET name == last'.args[1]
               i == Innermost(scope_stack, name)
           IN  /\ last'.err = "Ok"
               /\ scope_stack'[i].variables[name].value = Some(last'.args[2])
    /\ (/\ Called("execute")
        /\ IsSetOfLiteral(last'.args[1])
        /\ HeldBySomeScope(scope_stack, last'.args[1].operands[1][2])
        /\ ~SetTypeFails(last'.args[1])) =>
           LET name == last'.args[1].operands[1][2]
               i == Innermost(scope_stack, name)
           IN  /\ last'.err = "Ok"
               /\ scope_stack'[i].variables[name].value
                      = Some(last'.args[1].operands[1][3][2])
    /\ \A i \in 1..Len(scope_stack) :
           i <= Len(scope_stack') =>
               \A n \in DOMAIN scope_stack[i].variables :
                   n \in DOMAIN scope_stack'[i].variables =>
                       MutableFlags(scope_stack')[i][n]
                           = MutableFlags(scope_stack)[i][n]

(* C30: assign_variable, and therefore SET, never consults the mutable     *)
(* flag of a variable: an assignment to a variable declared with           *)
(* mutable = false succeeds and replaces its value, any number of times    *)
(* (SET when the type of the literal is accepted), and no operation        *)
(* changes the flag.                                                       *)
C30_MutableFlagIgnored == [][C30_Step]_vars

(* after a SET of the run has succeeded, assign_variable has given x,     *)
(* declared Bool with mutable = false, the value 7                         *)
C30_Witness ==
    /\ last.op = "assign_variable"
    /\ last.args = <<"x", <<"U32", 7>>>>
    /\ last.err = "Ok"
    /\ seq > 0
    /\ Len(scope_stack) = 1
    /\ "x" \in DOMAIN scope_stack[1].variables
    /\ ~scope_stack[1].variables["x"].mutable
    /\ scope_stack[1].variables["x"].value = Some(<<"U32", 7>>)

====
